---- MODULE Spec2Model ----
(***************************************************************************)
(* JetStream: the catalog gateway client (internal/service/squid.go and    *)
(* the logical calls built on it).                                         *)
(*                                                                         *)
(* Time is counted in minutes.  An endpoint is named by its position in    *)
(* urlStates (the URLs of the list are pairwise distinct in the default    *)
(* configuration), so a base URL is an index.                              *)
(***************************************************************************)
EXTENDS Integers, Sequences, FiniteSets, TLC

\* ---------------------------------------------------------------- bounds
\* Number of catalog endpoints (len(cfg.SquidURLs); 11 in the shipped list).
NumEndpoints == 2
\* How many times the clock advances in one behaviour.
MaxTicks == 2

\* ------------------------------------------------------------- constants
\* cooldown := 30 * time.Minute
Cooldown == 30

Endpoints == 0 .. (NumEndpoints - 1)
Drivers == {1, 2}

\* What one HTTP exchange with an endpoint can produce.  A body is what a
\* well-formed JSON answer decodes to: a field the answer does not carry
\* decodes to Go's zero value, written "" here (0 for a numeric id).
Keys == {"", "k"}
Titles == {"", "t"}
Bodies == [key : Keys, title : Titles]
NoBody == [key |-> "", title |-> ""]
Statuses == {"neterr", "429", "500", "404", "badjson", "200"}
Responses ==
    [st : Statuses \ {"200"}, body : {NoBody}] \cup [st : {"200"}, body : Bodies]

\* What the request running beside the observed call is answered.
BgResponses == {r \in Responses : r.st = "429" \/ (r.st = "200" /\ r.body.key = "k" /\ r.body.title = "t")}

\* Error kinds of an action; "nil" is success.
ErrKinds == {"rate_limited", "transport", "http_5xx", "http_4xx", "decode", "not_found"}

\* The logical calls of the gateway client.
CachedOps == {"song", "album", "artist", "playlist", "cover", "lyrics", "search"}
Ops == CachedOps \cup {"stream"}
SearchKinds == {"s", "al", "a", "p"}

None == [none |-> TRUE]

\* No identifier built or parsed yet.
NoCodec == [op |-> "none"]

\* No merge endpoint requested.
NoMerge == [pc |-> "none"]

\* No stream request in progress.
NoStream == [pc |-> "idle"]

VARIABLES
    now,              \* time.Now()
    ticks,            \* clock advances so far
    urlStates,        \* SquidService.urlStates[i].NextAvailable
    currentURLIndex,  \* SquidService.currentURLIndex
    redis,            \* the cache entry of the logical call under observation
    op,               \* the logical call under observation (fixed per behaviour)
    call,             \* the logical call: where it is and what it returned
    drv,              \* the running tryWithFallback invocations
    srch,             \* Search: the outcome of each of the four fetches
    codec,            \* ID codec: the last BuildID / ParseID application
    merge,            \* response merger: the merge request under observation
    stream,           \* stream dispatcher: the request being handled
    served,           \* stream requests answered so far
    songs,            \* the cache's song entries, by requested id
    disk,             \* the files under /music/jetstream
    tasks,            \* the background sync tasks started so far
    pathIndex,        \* the cache's "path:<id>" entries
    scan,             \* the maintenance scan
    srv               \* the HTTP server: serving, or told to shut down

\* The state of the stream dispatcher and the sync worker.
streaming == <<stream, served, songs, disk, tasks, pathIndex, scan, srv>>

\* The state outside the gateway client.
others == <<codec, merge, streaming>>

\* No stream request yet, nothing cached, no sync task, no scan, the server
\* serving, and the music folder with no file in it: the audio files that
\* verify and those that do not, the sync run or runs that wrote each of
\* them, the .tmp files and the .json sidecars.
NoStreaming ==
    /\ stream = NoStream
    /\ served = 0
    /\ songs = <<>>
    /\ disk = [good |-> {}, corrupt |-> {}, by |-> <<>>, tmp |-> <<>>, json |-> <<>>]
    /\ tasks = <<>>
    /\ pathIndex = <<>>
    /\ scan = [pc |-> "idle"]
    /\ srv = "serving"

\* The state of the gateway client.
gateway == <<now, ticks, urlStates, currentURLIndex, redis, op, call, drv, srch>>

vars == <<now, ticks, urlStates, currentURLIndex, redis, op, call, drv, srch,
          others>>

\* ------------------------------------------------- endpoint state table
\* time.Time.Before
Before(t, u) == t < u

Min(S) == CHOOSE x \in S : \A y \in S : x <= y

\* getCurrentURL falling back to the head of the list instead of the current index.
getCurrentURLHead(states, index, t) ==
    LET avail == {i \in 0 .. (NumEndpoints - 1) :
                     states[(index + i) % NumEndpoints] < t}
    IN  IF avail # {}
        THEN (index + Min(avail)) % NumEndpoints
        ELSE IF index = 0 THEN NumEndpoints - 1 ELSE 0

\* getCurrentURL: the first endpoint, in round-robin order from the current
\* index, whose NextAvailable is before now; the current one when there is none.
getCurrentURL(states, index, t) ==
    LET avail == {i \in 0 .. (NumEndpoints - 1) :
                     Before(states[(index + i) % NumEndpoints], t)}
    IN  IF avail # {}
        THEN (index + Min(avail)) % NumEndpoints
        ELSE index

\* markFailure that stamps the cooldown and forgets to rotate.
markFailureNoRotate(states, index, baseURL, t) ==
    [states |-> [states EXCEPT ![baseURL] = t + Cooldown], index |-> index]

\* markFailure: stamp the cooldown on baseURL and advance the index.
markFailure(states, index, baseURL, t) ==
    [states |-> [states EXCEPT ![baseURL] = t + Cooldown],
     index  |-> IF NumEndpoints > 1 THEN (index + 1) % NumEndpoints ELSE index]

\* tryWithFallback rotating after a success as well.
onSuccessRotate(states, index, baseURL, t) ==
    [states |-> states, index |-> (index + 1) % NumEndpoints]

\* tryWithFallback, on a nil error: return, nothing is touched.
onSuccess(states, index, baseURL, t) ==
    [states |-> states, index |-> index]

\* tryWithFallback, on an error: both branches (429 detected or not) call
\* markFailure; they differ only in the log line and the 100 ms sleep.
is429(err) == err = "rate_limited"

onFailure(states, index, baseURL, t, err) ==
    IF is429(err)
    THEN markFailure(states, index, baseURL, t)
    ELSE markFailure(states, index, baseURL, t)

\* maxAttempts := len(s.urlStates) (1 when the list is empty)
maxAttempts == IF NumEndpoints = 0 THEN 1 ELSE NumEndpoints

\* tryWithFallback returning at once on an error that rotation cannot cure.
afterFailureSurface(err, attempt) ==
    IF err \in {"decode", "http_4xx", "not_found"} THEN "done"
    ELSE IF attempt + 1 < NumEndpoints THEN "select" ELSE "done"

\* The loop of tryWithFallback after a failed attempt: go round again while
\* attempts remain, else fall out of the loop and return lastErr.
afterFailure(err, attempt) ==
    IF attempt + 1 < maxAttempts THEN "select" ELSE "done"

\* ------------------------------------------------------ action closures
statusErr(st) ==
    CASE st = "neterr"  -> "transport"
      [] st = "429"     -> "rate_limited"
      [] st = "500"     -> "http_5xx"
      [] st = "404"     -> "http_4xx"
      [] st = "badjson" -> "decode"

Ok(body) == [err |-> "nil", val |-> body]
Fail(kind) == [err |-> kind, val |-> NoBody]

\* HTTP status 200 (the body may still fail to decode)
Is200(r) == r.st \in {"200", "badjson"}

\* json decode of a 200 answer
Decoded(r) == IF r.st = "badjson" THEN Fail("decode") ELSE Ok(r.body)

\* GetAlbum, GetLyrics: "HTTP %d" on any other status
plainAction(r) == IF Is200(r) THEN Decoded(r) ELSE Fail(statusErr(r.st))

\* GetStreamURL: an empty URL list in the manifest is an error
streamAction(r) ==
    IF ~Is200(r) THEN Fail(statusErr(r.st))
    ELSE IF r.st = "badjson" THEN Fail("decode")
    ELSE IF r.body.key = "" THEN Fail("not_found")
    ELSE Ok(r.body)

\* GetSong: /info/ first, /track/ on the same endpoint when /info/ failed
songAction(r1, r2) ==
    IF Is200(r1) THEN Decoded(r1)
    ELSE IF r1.st = "429" THEN Fail("rate_limited")
    ELSE IF Is200(r2) THEN Decoded(r2)
    ELSE Fail(statusErr(r2.st))

\* GetArtist, metadata: the decode error of a 200 answer is ignored
artistMetaAction(r) ==
    IF ~Is200(r) THEN Fail(statusErr(r.st))
    ELSE IF r.st = "badjson" THEN Ok(NoBody)
    ELSE Ok(r.body)

\* GetArtist, discography
artistAlbumsAction(r) == IF Is200(r) THEN Decoded(r) ELSE Fail(statusErr(r.st))

\* GetPlaylist (empty uuid) and GetCoverURL (empty cover): not found
keyedAction(r) ==
    IF ~Is200(r) THEN Fail(statusErr(r.st))
    ELSE IF r.st = "badjson" THEN Fail("decode")
    ELSE IF r.body.key = "" THEN Fail("not_found")
    ELSE Ok(r.body)

Jobs == {"song", "album", "artist_meta", "artist_albums", "playlist", "cover",
         "lyrics", "stream"}

action(job, r1, r2) ==
    CASE job = "song"          -> songAction(r1, r2)
      [] job = "album"         -> plainAction(r1)
      [] job = "lyrics"        -> plainAction(r1)
      [] job = "stream"        -> streamAction(r1)
      [] job = "artist_meta"   -> artistMetaAction(r1)
      [] job = "artist_albums" -> artistAlbumsAction(r1)
      [] job = "playlist"      -> keyedAction(r1)
      [] job = "cover"         -> keyedAction(r1)

\* --------------------------------------------------------- logical calls
\* fmt.Sprintf("%d", item.ID): an id the answer did not carry prints as 0
fmtInt(k) == IF k = "" THEN "0" ELSE k

\* A cache entry: the entity's provider key and title (name), and whether
\* every upstream fetch behind it had succeeded when it was written.
Entry(key, title, complete) == [key |-> key, title |-> title, complete |-> complete]

\* A cache check that never hits.
cacheHitNever(o, e) == FALSE

\* The cache check at the head of each logical call: redis.Get succeeded and
\* the value unmarshals (GetLyrics, GetCoverURL: the value is not empty).
cacheHit(o, e) ==
    /\ o \in CachedOps
    /\ e # None
    /\ (o = "lyrics" => e.title # "")
    /\ (o = "cover" => e.key # "")

\* Search goroutine: fetchSongs / fetchAlbums / fetchArtists / fetchPlaylists.
\* A non-200 status yields an empty list and a nil error.
fetch(r) ==
    IF r.st = "neterr" THEN "err"
    ELSE IF ~Is200(r) THEN "empty"
    ELSE IF r.st = "badjson" THEN "err"
    ELSE "ok"

Returned(err, e) == [err |-> err, val |-> e]

\* What a logical call does once its fetches are over: the value it returns
\* and the entry it writes to the cache (None: no write).  d1 and d2 are the
\* finished tryWithFallback invocations, sr the four search fetches.
endCall(o, d1, d2, sr) ==
    CASE o \in {"song", "album"} ->
            IF d1.ret # "nil"
            THEN [ret |-> Returned(d1.ret, None), store |-> None]
            ELSE LET e == Entry(fmtInt(d1.val.key), d1.val.title, TRUE)
                 IN  [ret |-> Returned("nil", e), store |-> e]
      [] o = "playlist" ->
            IF d1.ret # "nil"
            THEN [ret |-> Returned(d1.ret, None), store |-> None]
            ELSE LET e == Entry(d1.val.key, d1.val.title, TRUE)
                 IN  [ret |-> Returned("nil", e), store |-> e]
      [] o = "artist" ->
            IF d1.ret # "nil" \/ d2.ret # "nil"
            THEN [ret |-> Returned("artist_info", None), store |-> None]
            ELSE LET name == IF d1.val.title = "" /\ d2.val.key # ""
                             THEN d2.val.title
                             ELSE d1.val.title
                     e == Entry("k", name, TRUE)
                 IN  [ret |-> Returned("nil", e), store |-> e]
      [] o = "lyrics" ->
            IF d1.ret # "nil"
            THEN [ret |-> Returned(d1.ret, None), store |-> None]
            ELSE LET e == Entry("k", d1.val.title, TRUE)
                 IN  [ret |-> Returned("nil", e),
                      store |-> IF d1.val.title # "" THEN e ELSE None]
      [] o = "cover" ->
            LET e == Entry(d1.val.key, "url", TRUE)
            IN  [ret |-> Returned(d1.ret, IF d1.ret = "nil" THEN e ELSE None),
                 store |-> IF d1.val.key # "" THEN e ELSE None]
      [] o = "stream" ->
            IF d1.ret # "nil"
            THEN [ret |-> Returned(d1.ret, None), store |-> None]
            ELSE [ret |-> Returned("nil", Entry(d1.val.key, d1.val.title, TRUE)),
                  store |-> None]
      [] o = "search" ->
            LET e == Entry("k", "t", \A k \in SearchKinds : sr[k] = "ok")
            IN  [ret |-> Returned("nil", e), store |-> e]

\* ------------------------------------------------------------------ state
\* Driver 1 runs the fetch of the logical call under observation; its
\* history (tried, again, firstErr, lastOut, cold) is kept for the properties.
\* Driver 2 runs GetArtist's second fetch, or another request's GetStreamURL.
IdleDrv ==
    [pc |-> "idle", job |-> "none", attempt |-> 0, baseURL |-> 0,
     lastErr |-> "nil", val |-> NoBody, ret |-> "pending",
     tried |-> {}, again |-> FALSE, firstErr |-> "nil", lastOut |-> "nil",
     cold |-> FALSE]

Start(job) == [IdleDrv EXCEPT !.pc = "select", !.job = job]

IdleCall == [pc |-> "idle", hit |-> FALSE, ret |-> None, ctx |-> "live", at |-> {}]
NoSearch == [k \in SearchKinds |-> "pending"]

\* Every endpoint has its NextAvailable in the future.
AllOnCooldown == \A i \in Endpoints : urlStates[i] > now

\* NewSquidService: every NextAvailable is the time of construction.
Constructed ==
    /\ ticks = 0
    /\ urlStates = [i \in Endpoints |-> 0]
    /\ currentURLIndex = 0
    /\ redis = None
    /\ call = IdleCall
    /\ drv = [d \in Drivers |-> IdleDrv]
    /\ srch = NoSearch

\* The gateway under concurrent requests for stream URLs.
Init ==
    /\ Constructed
    /\ now = 0
    /\ op = "stream"
    /\ codec = NoCodec
    /\ merge = NoMerge
    /\ NoStreaming

\* Every logical call, one request at a time, the first of them a minute
\* after construction.
InitCalls ==
    /\ Constructed
    /\ now = 1
    /\ op \in Ops
    /\ codec = NoCodec
    /\ merge = NoMerge
    /\ NoStreaming

\* ---------------------------------------------------------------- actions
\* The clock advances: by a minute, or by a whole cooldown.
Tick(dt) ==
    /\ ticks < MaxTicks
    /\ now' = now + dt
    /\ ticks' = ticks + 1
    /\ UNCHANGED <<urlStates, currentURLIndex, redis, op, call, drv, srch>>
    /\ UNCHANGED others

\* A logical call starts: cache check, then the fetch is set off.
CallBegin ==
    /\ call.pc = "idle"
    /\ drv[1].pc = "idle"
    /\ IF cacheHit(op, redis)
       THEN /\ call' = [pc |-> "done", hit |-> TRUE, ret |-> Returned("nil", redis),
                     ctx |-> "live", at |-> {}]
            /\ UNCHANGED drv
       ELSE /\ call' = [IdleCall EXCEPT !.pc = "run"]
            /\ IF op = "search" THEN UNCHANGED drv
               ELSE IF op = "artist"
               THEN /\ drv[2].pc = "idle"
                    /\ drv' = [drv EXCEPT ![1] = Start("artist_meta"),
                                          ![2] = Start("artist_albums")]
               ELSE drv' = [drv EXCEPT ![1] = Start(op)]
    /\ UNCHANGED <<now, ticks, urlStates, currentURLIndex, redis, op, srch>>
    /\ UNCHANGED others

\* tryWithFallback: baseURL := s.getCurrentURL()
DriverSelect(d) ==
    /\ drv[d].pc = "select"
    /\ drv' = [drv EXCEPT
                 ![d].pc = "act",
                 ![d].baseURL = getCurrentURL(urlStates, currentURLIndex, now),
                 ![d].cold = IF d = 1 /\ drv[d].attempt = 0
                             THEN AllOnCooldown ELSE @]
    /\ UNCHANGED <<now, ticks, urlStates, currentURLIndex, redis, op, call, srch>>
    /\ UNCHANGED others

\* tryWithFallback: err := action(baseURL) and what follows it.
DriverAct(d, r1, r2) ==
    /\ drv[d].pc = "act"
    /\ (call.ctx = "cancelled" /\ (d = 1 \/ op = "artist")) =>
           (r1.st = "neterr" /\ r2.st = "neterr")
    /\ LET res == action(drv[d].job, r1, r2)
           b   == drv[d].baseURL
           tbl == IF res.err = "nil"
                  THEN onSuccess(urlStates, currentURLIndex, b, now)
                  ELSE onFailure(urlStates, currentURLIndex, b, now, res.err)
           pc2 == IF res.err = "nil" THEN "done"
                  ELSE afterFailure(res.err, drv[d].attempt)
           le  == IF res.err = "nil" THEN drv[d].lastErr ELSE res.err
       IN  /\ urlStates' = tbl.states
           /\ currentURLIndex' = tbl.index
           /\ drv' = IF d = 2 /\ op # "artist" /\ pc2 = "done"
                     THEN [drv EXCEPT ![d] = IdleDrv]
                     ELSE
                     [drv EXCEPT
                        ![d].pc = pc2,
                        ![d].baseURL = 0,
                        ![d].attempt = IF res.err = "nil" THEN @ ELSE @ + 1,
                        ![d].lastErr = le,
                        ![d].val = res.val,
                        ![d].ret = IF pc2 # "done" THEN "pending"
                                   ELSE IF res.err = "nil" THEN "nil" ELSE le,
                        ![d].tried = IF d = 1 THEN @ \cup {b} ELSE @,
                        ![d].again = IF d = 1 THEN @ \/ b \in drv[d].tried ELSE @,
                        ![d].firstErr = IF drv[d].cold /\ drv[d].attempt = 0
                                        THEN res.err ELSE @,
                        ![d].lastOut = IF d = 1 THEN res.err ELSE @]
    /\ UNCHANGED <<now, ticks, redis, op, call, srch>>
    /\ UNCHANGED others

\* Search: one of the four goroutines; it reads getCurrentURL() and fetches
\* from the endpoint it read (call.at keeps the endpoints read).
SearchFetch(k, r) ==
    /\ op = "search"
    /\ call.pc = "run"
    /\ srch[k] = "pending"
    /\ call.ctx = "cancelled" => r.st = "neterr"
    /\ srch' = [srch EXCEPT ![k] = fetch(r)]
    /\ call' = [call EXCEPT
                   !.at = @ \cup {getCurrentURL(urlStates, currentURLIndex, now)}]
    /\ UNCHANGED <<now, ticks, urlStates, currentURLIndex, redis, op, drv>>
    /\ UNCHANGED others

FetchesOver ==
    CASE op = "search" -> \A k \in SearchKinds : srch[k] # "pending"
      [] op = "artist" -> drv[1].pc = "done" /\ drv[2].pc = "done"
      [] OTHER         -> drv[1].pc = "done"

\* The logical call returns; on the way it may write the cache (a write
\* under a cancelled context goes through or fails).
CallEnd ==
    /\ call.pc = "run"
    /\ FetchesOver
    /\ LET e == endCall(op, drv[1], drv[2], srch)
       IN  /\ call' = [call EXCEPT !.pc = "done", !.hit = FALSE, !.ret = e.ret]
           /\ \E stored \in IF call.ctx = "live" THEN {TRUE} ELSE BOOLEAN :
                 redis' = IF e.store # None /\ stored THEN e.store ELSE redis
    /\ drv' = [drv EXCEPT ![1] = IdleDrv,
                          ![2] = IF op = "artist" THEN IdleDrv ELSE @]
    /\ srch' = NoSearch
    /\ UNCHANGED <<now, ticks, urlStates, currentURLIndex, op>>
    /\ UNCHANGED others

\* The caller takes the result.
CallReturn ==
    /\ call.pc = "done"
    /\ call' = IdleCall
    /\ UNCHANGED <<now, ticks, urlStates, currentURLIndex, redis, op, drv, srch>>
    /\ UNCHANGED others

\* The caller of the logical call goes away while the call's fetches are
\* under way: its context is cancelled, and every request made with that
\* context from now on fails at once (http.NewRequestWithContext,
\* client.Do).  tryWithFallback does not look at the context.
CallCancel ==
    /\ call.pc = "run"
    /\ call.ctx = "live"
    /\ ~FetchesOver
    /\ call' = [call EXCEPT !.ctx = "cancelled"]
    /\ UNCHANGED <<now, ticks, urlStates, currentURLIndex, redis, op, drv, srch>>
    /\ UNCHANGED others

\* Another request, running at the same time (as the stream requests, or
\* as the search that fans out), asks for a stream URL; its result goes to
\* its own caller and is not kept here.
BgBegin ==
    /\ drv[2].pc = "idle"
    /\ drv' = [drv EXCEPT ![2] = Start("stream")]
    /\ UNCHANGED <<now, ticks, urlStates, currentURLIndex, redis, op, call, srch>>
    /\ UNCHANGED others

Next ==
    \/ \E dt \in {1, Cooldown} : Tick(dt)
    \/ CallBegin
    \/ \E d \in Drivers : DriverSelect(d)
    \/ \E d \in Drivers : \E r \in Responses :
          /\ d = 2 => r \in BgResponses
          /\ DriverAct(d, r, r)
    \/ CallEnd
    \/ CallReturn
    \/ BgBegin

Spec == Init /\ [][Next]_vars

NextCalls ==
    \/ CallBegin
    \/ \E d \in Drivers : DriverSelect(d)
    \/ \E d \in Drivers : \E r1 \in Responses :
          \E r2 \in (IF drv[d].job = "song" THEN Responses ELSE {r1}) :
             DriverAct(d, r1, r2)
    \/ \E k \in SearchKinds : \E r \in Responses : SearchFetch(k, r)
    \/ op = "search" /\ call.pc = "run" /\ ~FetchesOver /\ BgBegin
    \/ CallCancel
    \/ CallEnd
    \/ CallReturn

SpecCalls == InitCalls /\ [][NextCalls]_vars

\* ================================================================ claims
\* Steps of the observed invocation (driver 1).
Selects == drv[1].pc = "select" /\ drv'[1].pc = "act"
Invokes == drv[1].pc = "act" /\ drv'[1].pc # "act"
FailsWith(K) == Invokes /\ drv'[1].lastOut \in K
Rotated == currentURLIndex' = (currentURLIndex + 1) % NumEndpoints
Stamped == urlStates'[drv[1].baseURL] = now + Cooldown
AttemptsRemain == drv[1].attempt + 1 < NumEndpoints

\* C1: when the action fails as rate-limited, the endpoint's available_at
\* becomes now + 30 min and current_index advances by one (mod N); while the
\* call has attempts left it goes on to select and invoke again, and for a
\* call that runs alone the endpoint it takes next is one it has not tried;
\* a get_album call that then succeeds returns the value and has populated
\* the cache key.
C1_RateLimitedRotates ==
    [][ /\ FailsWith({"rate_limited"}) =>
              /\ Stamped
              /\ Rotated
              /\ AttemptsRemain => drv'[1].pc = "select"
        /\ (Selects /\ drv[1].lastOut = "rate_limited" /\ op # "artist") =>
              drv'[1].baseURL \notin drv[1].tried
        /\ (op = "album" /\ call.pc = "run" /\ call'.pc = "done"
              /\ call'.ret.err = "nil") =>
              /\ redis' # None
              /\ call'.ret.val = redis'
      ]_vars

C1_Witness ==
    /\ op = "album"
    /\ drv[1].pc = "done"
    /\ drv[1].ret = "nil"
    /\ drv[1].lastErr = "rate_limited"
    /\ drv[1].attempt = 1
    /\ drv[1].tried = {0, 1}
    /\ urlStates[0] = now + Cooldown
    /\ urlStates[1] < now
    /\ currentURLIndex = 1

\* C2 (as claimed): a decode error, a 4xx other than 429 or not_found is
\* returned at once: the invocation ends with that error and the endpoint
\* table is left alone.
Permanent == {"decode", "http_4xx", "not_found"}

C3_TransientNoCooldown ==
    [][ FailsWith({"transport", "http_5xx"}) =>
           /\ Rotated
           /\ urlStates'[drv[1].baseURL] = urlStates[drv[1].baseURL]
      ]_vars

\* C4 (as claimed): within one call no endpoint is invoked twice, there are
\* at most N invocations, and a call that fails returns the error of its
\* last invocation.
C4_EachEndpointOnce ==
    /\ ~drv[1].again
    /\ drv[1].attempt <= NumEndpoints
    /\ (drv[1].pc = "done" /\ drv[1].ret # "nil") => drv[1].ret = drv[1].lastOut

\* C5 (as claimed): selection takes the current endpoint when its
\* available_at <= now, else the first one in round-robin order with
\* available_at <= now, and the current one only when there is none.
claimedURL(states, index, t) ==
    LET avail == {i \in 0 .. (NumEndpoints - 1) :
                     states[(index + i) % NumEndpoints] <= t}
    IN  IF avail # {}
        THEN (index + Min(avail)) % NumEndpoints
        ELSE index

C5_SelectsAvailable ==
    [][ \A d \in Drivers :
          (drv[d].pc = "select" /\ drv'[d].pc = "act") =>
              drv'[d].baseURL = claimedURL(urlStates, currentURLIndex, now)
      ]_vars

\* C6 (as claimed): with every endpoint on cooldown when the call starts,
\* the first invocation is on the endpoint at current_index, and when it
\* fails its error is what the call returns.
ColdSelect == Selects /\ drv[1].attempt = 0 /\ AllOnCooldown

C6_ColdErrorSurfaced ==
    [][ /\ ColdSelect => drv'[1].baseURL = currentURLIndex
        /\ (Invokes /\ drv'[1].pc = "done" /\ drv'[1].cold
              /\ drv'[1].firstErr # "nil") =>
              drv'[1].ret = drv'[1].firstErr
      ]_vars

\* C6 (amended): with every endpoint on cooldown when the call starts, the
\* first invocation is on the endpoint at current_index; when it fails the
\* driver goes on to the other endpoints, and an error the call returns is
\* the error of its last invocation, unchanged.
C6_ColdLastErrorSurfaced ==
    [][ /\ ColdSelect => drv'[1].baseURL = currentURLIndex
        /\ (Invokes /\ drv[1].cold /\ drv[1].attempt = 0
              /\ drv'[1].lastOut # "nil" /\ AttemptsRemain) =>
              drv'[1].pc = "select"
        /\ (Invokes /\ drv'[1].pc = "done" /\ drv'[1].cold
              /\ drv'[1].ret # "nil") =>
              drv'[1].ret = drv'[1].lastOut
      ]_vars

C6_Witness ==
    /\ drv[1].pc = "done"
    /\ drv[1].cold
    /\ drv[1].ret # "nil"
    /\ drv[1].firstErr # "nil"
    /\ drv[1].ret # drv[1].firstErr

\* C7: a call whose first invocation succeeds does not touch the endpoint
\* table: none of its steps (cache check, selection, the successful
\* invocation, the return) changes an available_at or current_index.
C7_SuccessLeavesTable ==
    [][ ( \/ call'.pc # call.pc
          \/ Selects
          \/ (Invokes /\ drv'[1].lastOut = "nil") ) =>
           UNCHANGED <<urlStates, currentURLIndex>>
      ]_vars

C7_Witness ==
    /\ drv[1].pc = "done"
    /\ drv[1].ret = "nil"
    /\ drv[1].attempt = 0
    /\ drv[1].tried = {1}
    /\ urlStates[0] = now + Cooldown
    /\ urlStates[1] < now
    /\ currentURLIndex = 1

\* C8: a logical call that finds its key in the cache returns the entry and
\* makes no upstream request: no driver is started, no search fetch is made,
\* and the endpoint table and the cache are as they were.
C8_CacheHitNoUpstream ==
    [][ (call.pc = "idle" /\ call'.pc # "idle" /\ redis # None) =>
           /\ call' = [pc |-> "done", hit |-> TRUE, ret |-> Returned("nil", redis),
                     ctx |-> "live", at |-> {}]
           /\ UNCHANGED <<urlStates, currentURLIndex, redis, drv, srch>>
      ]_vars

C8_Witness ==
    /\ op = "search"
    /\ call.pc = "done"
    /\ call.hit
    /\ call.ret.val = redis

\* C9 (as claimed): the cache is written only by a call that succeeded, and
\* only when every upstream fetch behind the entry had succeeded.
C9_NoPartialEntry ==
    [][ (redis' # redis /\ redis' # None) =>
           /\ call'.pc = "done"
           /\ call'.ret.err = "nil"
           /\ redis'.complete
      ]_vars

\* C10 (as claimed): a cached Song, Album, Artist or Playlist has a title
\* (name) and an id that carries a provider key.
C10_RequiredFields ==
    (redis # None /\ op \in {"song", "album", "artist", "playlist"}) =>
        /\ redis.title # ""
        /\ redis.key \notin {"", "0"}

\* ============================================================== ID codec
\* pkg/subsonic: ParseID and BuildID.  A string is the sequence of its
\* characters, so that splitting and joining are computed, not assumed.

\* Longest provider name and longest opaque key drawn.
MaxLen == 3

Dash == "-"
ExtPrefix == <<"e", "x", "t", "-">>

\* All strings over the alphabet A of length at most n.
StringsOver(A, n) == UNION {[1 .. k -> A] : k \in 0 .. n}

\* The media types the callers of BuildID pass.
MediaTypes == {<<"s", "o", "n", "g">>, <<"a", "l", "b", "u", "m">>,
               <<"a", "r", "t", "i", "s", "t">>,
               <<"p", "l", "a", "y", "l", "i", "s", "t">>}

\* Providers: the callers pass the literal "squidwtf"; a name has no dash.
ProviderChars == {"q", "x"}
Providers == StringsOver(ProviderChars, MaxLen)

\* Provider keys: numeric ids and UUIDs, the latter with dashes in them.
OpaqueChars == {"7", Dash}
Opaques == StringsOver(OpaqueChars, MaxLen)

\* Identifiers a client may send: any head followed by any tail.
Heads == {<<>>, ExtPrefix, <<"e", "x", "t">>, <<"x", "t", "-">>, <<"7">>}
ClientIDs == {h \o t : h \in Heads, t \in StringsOver({"q", Dash}, MaxLen)}

\* strings.HasPrefix
HasPrefix(str, prefix) ==
    /\ Len(str) >= Len(prefix)
    /\ SubSeq(str, 1, Len(prefix)) = prefix

\* strings.Split(str, "-"): the pieces between the dashes, empty ones kept.
RECURSIVE Split(_)
Split(str) ==
    LET dashes == {i \in 1 .. Len(str) : str[i] = Dash}
    IN  IF dashes = {} THEN <<str>>
        ELSE LET i == Min(dashes)
             IN  <<SubSeq(str, 1, i - 1)>> \o Split(SubSeq(str, i + 1, Len(str)))

\* strings.Join(parts, "-")
RECURSIVE Join(_)
Join(parts) ==
    IF Len(parts) = 0 THEN <<>>
    ELSE IF Len(parts) = 1 THEN parts[1]
    ELSE parts[1] \o <<Dash>> \o Join(Tail(parts))

Parsed(isExternal, provider, mediaType, externalID) ==
    [isExternal |-> isExternal, provider |-> provider,
     mediaType |-> mediaType, externalID |-> externalID]

\* ParseID keeping the legacy three-segment form out.
ParseIDStrict(id) ==
    IF ~HasPrefix(id, ExtPrefix) THEN Parsed(FALSE, <<>>, <<>>, id)
    ELSE LET parts == Split(id)
         IN  IF Len(parts) >= 4
             THEN Parsed(TRUE, parts[2], parts[3], Join(SubSeq(parts, 4, Len(parts))))
             ELSE Parsed(FALSE, <<>>, <<>>, id)

\* ParseID cutting the identifier into exactly four segments' worth of
\* fields, the dashes of the tail dropped.
ParseIDFlat(id) ==
    IF ~HasPrefix(id, ExtPrefix) THEN Parsed(FALSE, <<>>, <<>>, id)
    ELSE LET parts == Split(id)
         IN  IF Len(parts) >= 4
             THEN Parsed(TRUE, parts[2], parts[3], parts[4])
             ELSE IF Len(parts) >= 3
             THEN Parsed(TRUE, parts[2], <<>>, parts[3])
             ELSE Parsed(FALSE, <<>>, <<>>, id)

\* ParseID (parts is 1-based here: parts[1] is "ext")
ParseID(id) ==
    IF ~HasPrefix(id, ExtPrefix) THEN Parsed(FALSE, <<>>, <<>>, id)
    ELSE LET parts == Split(id)
         IN  IF Len(parts) >= 4
             THEN Parsed(TRUE, parts[2], parts[3], Join(SubSeq(parts, 4, Len(parts))))
             ELSE IF Len(parts) >= 3
             THEN Parsed(TRUE, parts[2], <<>>, Join(SubSeq(parts, 3, Len(parts))))
             ELSE Parsed(FALSE, <<>>, <<>>, id)

\* BuildID
BuildID(provider, mediaType, externalID) ==
    ExtPrefix \o provider \o <<Dash>> \o mediaType \o <<Dash>> \o externalID

\* What the codec is applied to: the fields of an entity the gateway
\* answered with, or an identifier a client sent.
CodecInputs ==
    [op : {"entity"}, p : Providers, k : MediaTypes, o : Opaques]
        \cup [op : {"request"}, id : ClientIDs]

InitCodec ==
    /\ Constructed
    /\ now = 0
    /\ op = "stream"
    /\ codec \in CodecInputs
    /\ merge = NoMerge
    /\ NoStreaming

\* An entity id is built for a provider key.
Build ==
    /\ codec.op = "entity"
    /\ codec' = [op |-> "built", p |-> codec.p, k |-> codec.k, o |-> codec.o,
                 id |-> BuildID(codec.p, codec.k, codec.o)]
    /\ UNCHANGED <<gateway, merge, streaming>>

\* The id that was built comes back in a request and is parsed.
ParseBuilt ==
    /\ codec.op = "built"
    /\ codec' = [codec EXCEPT !.op = "roundtrip"] @@ [out |-> ParseID(codec.id)]
    /\ UNCHANGED <<gateway, merge, streaming>>

\* A client sends an identifier of its own.
ParseClient ==
    /\ codec.op = "request"
    /\ codec' = [op |-> "parsed", id |-> codec.id, out |-> ParseID(codec.id)]
    /\ UNCHANGED <<gateway, merge, streaming>>

\* The test the resolvers open with: strings.HasPrefix(navidromeID, "ext-").
IsExternalID(navidromeID) == HasPrefix(navidromeID, ExtPrefix)

\* idInPathRegex.FindStringSubmatch(path)[1] for the pattern \[(ext-[^\]]+)\]:
\* the leftmost "[ext-" that is followed by at least one character other
\* than "]" and then by "]"; what stands between the brackets, or nothing
\* when there is no match.
idInPathRegex(path) ==
    LET close(i) == {j \in i + 5 .. Len(path) : path[j] = "]"}
        starts == {i \in 1 .. Len(path) :
                      /\ i + 4 <= Len(path)
                      /\ SubSeq(path, i, i + 4) = <<"[">> \o ExtPrefix
                      /\ close(i) # {}
                      /\ Min(close(i)) > i + 5}
    IN  IF starts = {} THEN <<>>
        ELSE SubSeq(path, Min(starts) + 1, Min(close(Min(starts))) - 1)

\* A resolver that takes every file for a ghost.
isGhostAlways(file) == TRUE

\* ResolveVirtualID, isGhost: the file is not there, or it is a regular
\* file of less than 1 MiB.
isGhost(file) ==
    \/ file.kind = "missing"
    \/ file.kind = "regular" /\ file.size < 1024 * 1024

\* ResolveVirtualID for an id without the prefix, from what the library
\* answered to getSong (lib: None when the query failed or the reply did
\* not decode), what is on disk at the path it reported (file: missing, not
\* to be looked at, no regular file, or a regular file with its size and
\* its TIDAL_ID frame, None when it has none or no tag can be read) and the songs the gateway's search lists (matches).  stat tells
\* whether the disk was looked at.
ResolveVirtualID(navidromeID, lib, file, matches) ==
    LET ret(how, id, isVirtual, stat) ==
            [how |-> how, id |-> id, isVirtual |-> isVirtual, err |-> FALSE, stat |-> stat]
    IN  IF lib = None
        THEN [how |-> "error", id |-> <<>>, isVirtual |-> FALSE, err |-> TRUE, stat |-> FALSE]
        ELSE IF lib.Path = <<>> THEN ret("native", navidromeID, FALSE, FALSE)
        ELSE IF idInPathRegex(lib.Path) # <<>>
        THEN ret("path", idInPathRegex(lib.Path), TRUE, FALSE)
        ELSE IF file.kind = "regular" /\ file.tag # None
        THEN ret("tag", file.tag.Value, TRUE, TRUE)
        ELSE IF isGhost(file) /\ lib.Artist # <<>> /\ lib.Title # <<>> /\ matches # <<>>
        THEN ret("search", matches[1], TRUE, TRUE)
        ELSE ret("native", navidromeID, FALSE, TRUE)

\* ResolveVirtualID, ResolveVirtualArtistID, ResolveVirtualAlbumID: an
\* identifier that passes the test is returned as it is, as virtual, and
\* the library is not asked; any other is looked up at the library.
\* ResolveVirtualID then goes by the path, the file's tag and the search
\* (with no path reported there is no file to look at); the other two
\* resolve the id or do not.
ResolveClient ==
    /\ codec.op = "request"
    /\ \E fn \in {"ResolveVirtualID", "ResolveVirtualArtistID", "ResolveVirtualAlbumID"} :
          IF IsExternalID(codec.id)
          THEN codec' = [op |-> "resolved", fn |-> fn, id |-> codec.id,
                         res |-> codec.id, isVirtual |-> TRUE, queried |-> FALSE]
          ELSE IF fn = "ResolveVirtualID"
          THEN \E lib \in {None} \cup
                          [Path : {<<>>, <<"a">>, <<"[", "e", "x", "t", "-", "]">>,
                                   <<"a", "[", "e", "x", "t", "-", "q", "]", "]">>},
                           Artist : {<<>>, <<"r">>},
                           Title : {<<>>, <<"t">>}],
                  file \in {[kind |-> "missing"], [kind |-> "unreadable"], [kind |-> "other"]}
                              \cup [kind : {"regular"},
                                    size : {1024 * 1024 - 1, 1024 * 1024},
                                    tag : {None, [Value |-> <<"7">>]}],
                  matches \in {<<>>, <<BuildID(<<"q">>, <<"s", "o", "n", "g">>, <<"7">>),
                                       BuildID(<<"q">>, <<"s", "o", "n", "g">>, <<"8">>)>>} :
                  /\ (lib # None /\ lib.Path = <<>>) => file.kind = "other"
                  /\ LET r == ResolveVirtualID(codec.id, lib, file, matches)
                     IN  codec' = [op |-> "resolved", fn |-> fn, id |-> codec.id,
                                   res |-> r.id, isVirtual |-> r.isVirtual, queried |-> TRUE,
                                   lib |-> lib, file |-> file, songs |-> matches,
                                   how |-> r.how, err |-> r.err, stat |-> r.stat]
          ELSE \E found \in BOOLEAN :
                  codec' = [op |-> "resolved", fn |-> fn, id |-> codec.id,
                            res |-> IF found THEN BuildID(<<"q">>, <<"s", "o", "n", "g">>, <<"7">>)
                                    ELSE codec.id,
                            isVirtual |-> found, queried |-> TRUE]
    /\ UNCHANGED <<gateway, merge, streaming>>

\* GetAlbum, GetArtist, GetCoverURL: numericID := strings.Split(id, "-")[3],
\* the key put into the upstream URL; an id of fewer than four pieces is
\* refused (None) and nothing is sent.
NumericIDOf(id) ==
    LET parts == Split(id)
    IN  IF Len(parts) < 4 THEN None ELSE parts[4]

\* The id that was built comes back in a request and a logical call is made
\* with it: GetAlbum for an album, GetArtist for an artist, GetCoverURL for
\* an album, a song or an artist.
CallBuilt ==
    /\ codec.op = "built"
    /\ \E fn \in {"GetAlbum", "GetArtist", "GetCoverURL"} :
          /\ fn = "GetAlbum" => codec.k = <<"a", "l", "b", "u", "m">>
          /\ fn = "GetArtist" => codec.k = <<"a", "r", "t", "i", "s", "t">>
          /\ fn = "GetCoverURL" => codec.k # <<"p", "l", "a", "y", "l", "i", "s", "t">>
          /\ codec' = [op |-> "called", p |-> codec.p, k |-> codec.k, o |-> codec.o,
                       id |-> codec.id, fn |-> fn, sent |-> NumericIDOf(codec.id)]
    /\ UNCHANGED <<gateway, merge, streaming>>

NextCodec ==
    \/ Build
    \/ ParseBuilt
    \/ CallBuilt
    \/ ParseClient
    \/ ResolveClient

SpecCodec == InitCodec /\ [][NextCodec]_vars

Segments(id) == Len(Split(id))

\* C12 (as claimed): ParseID gives Native(s), s unchanged, for every s that
\* does not start with "ext-" and for every s that starts with it and has
\* fewer than four segments; External only with four segments or more.
C12_NativeBelowFour ==
    codec.op = "parsed" =>
        IF HasPrefix(codec.id, ExtPrefix) /\ Segments(codec.id) >= 4
        THEN codec.out.isExternal
        ELSE codec.out = Parsed(FALSE, <<>>, <<>>, codec.id)

\* C12 (amended): ParseID gives Native(s), s unchanged, for every s that
\* does not start with "ext-" and for every s that starts with it and has
\* fewer than three segments.  With exactly three segments it gives
\* External with the second segment as provider, an empty media type and
\* the third segment as key; with four or more, External with a media type.
C12_NativeBelowThree ==
    codec.op = "parsed" =>
        LET parts == Split(codec.id)
        IN  IF ~HasPrefix(codec.id, ExtPrefix) \/ Len(parts) < 3
            THEN codec.out = Parsed(FALSE, <<>>, <<>>, codec.id)
            ELSE IF Len(parts) = 3
            THEN codec.out = Parsed(TRUE, parts[2], <<>>, parts[3])
            ELSE /\ codec.out.isExternal
                 /\ codec.out.provider = parts[2]
                 /\ codec.out.mediaType = parts[3]

C12_Witness ==
    /\ codec.op = "parsed"
    /\ codec.id = ExtPrefix \o <<"q", Dash, "q">>
    /\ codec.out = Parsed(TRUE, <<"q">>, <<>>, <<"q">>)

\* ------------------------------------------------------- response merger
\* The merge handlers: Search3, Search2, Search and GetAlbumList2 (random)
\* of the search handler, GetPlaylists of the metadata handler.  Each asks
\* the library and the gateway in two goroutines, waits for both, and
\* composes the response from what arrived.

\* Longest list the library answers with, and the gateway's short lists.
MaxEntries == 2

\* Version
Version == "1.16.1"
\* limit = 50
DefaultLimit == 50
\* limit := 10
InjectLimit == 10

MergeEndpoints == {"search3", "search2", "search", "getAlbumList2", "getPlaylists"}
SearchEndpoints == {"search3", "search2", "search"}

\* The lists of the response element the handler composes: SearchResult3,
\* SearchResult2, SearchResult (Match holds songs), AlbumList2, Playlists.
MergedKinds(e) ==
    CASE e = "search3" -> {"song", "album", "artist", "playlist"}
      [] e = "search2" -> {"song", "album", "artist"}
      [] e = "search" -> {"song"}
      [] e = "getAlbumList2" -> {"album"}
      [] e = "getPlaylists" -> {"playlist"}

\* The lists a Subsonic server fills in its answer to the same request.
LibraryKinds(e) == MergedKinds(e) \ (IF e = "search3" THEN {"playlist"} ELSE {})

\* The lists of the gateway's search result.
GatewayKinds == {"song", "album", "artist", "playlist"}

\* cfg.SearchLimit: any integer the environment holds.
SearchLimits == {-1, 0, 1, MaxEntries + 1}

\* n entries of one origin, in the order their server listed them.
Entries(origin, n) == [i \in 1 .. n |-> <<origin, i>>]

LibraryLens == {0, 1, MaxEntries}
GatewayLens == {0, 1, MaxEntries, DefaultLimit + 1}

\* What the library reports as its protocol version.
LibraryVersions == {Version, "1.15.0"}

\* subsonic.Response, as far as a merge handler reads or writes it.  Result
\* is the response element of the endpoint: None when the pointer is nil,
\* else its lists (a nil slice is the empty list).
ZeroResponse == [Status |-> "", Version |-> "", Error |-> None, Result |-> None]

\* What the HTTP exchange with the library produces: no response at all, a
\* body that does not decode, an ok answer, or a Subsonic error.
LibraryAnswers(e) ==
    {[st |-> "neterr"], [st |-> "badxml"]}
        \cup [st : {"200"}, Status : {"ok"}, Version : LibraryVersions,
              Error : {None},
              Result : {None} \cup [LibraryKinds(e) -> {Entries("lib", n) : n \in LibraryLens}]]
        \cup [st : {"200"}, Status : {"failed"}, Version : {Version},
              Error : {[Code |-> 40, Message |-> "Wrong username or password"]},
              Result : {None}]

\* What the gateway's search produces: an error, or the items each of the
\* four queries listed.
GatewayAnswers ==
    {[err |-> TRUE]}
        \cup [err : {FALSE}, items : [GatewayKinds -> {Entries("gw", n) : n \in GatewayLens}]]

\* xml.NewDecoder(resp.Body).Decode(navidromeResult) into a zero Response;
\* a decoding error is logged at most.
Decode(e, a) ==
    IF a.st = "badxml" THEN ZeroResponse
    ELSE [Status |-> a.Status, Version |-> a.Version, Error |-> a.Error,
          Result |-> IF a.Result = None THEN None
                     ELSE [k \in MergedKinds(e) |->
                              IF k \in DOMAIN a.Result THEN a.Result[k] ELSE <<>>]]

\* fetchSongs, fetchAlbums, fetchArtists, fetchPlaylists: the loop over the
\* items breaks at cfg.SearchLimit when that is positive.
fetchKind(items, searchLimit) ==
    IF searchLimit > 0 /\ Len(items) > searchLimit
    THEN SubSeq(items, 1, searchLimit)
    ELSE items

\* SquidService.Search: the four lists.
Search(items, searchLimit) ==
    [k \in GatewayKinds |-> fetchKind(items[k], searchLimit)]

\* navidromeResult = &subsonic.Response{Status: "ok", Version: "1.16.1", ...}
SynthesizedZero(e) == ZeroResponse

Synthesized(e) ==
    [Status |-> "ok", Version |-> Version, Error |-> None,
     Result |-> IF e = "search" THEN None ELSE [k \in MergedKinds(e) |-> <<>>]]

\* navidromeResult.Status = "ok"; navidromeResult.Error = nil
ForceOK(r) == [r EXCEPT !.Status = "ok", !.Error = None]

\* if navidromeResult.X == nil { navidromeResult.X = &X{} }, nil lists
\* made empty
WithResult(e, r) ==
    IF r.Result = None THEN [r EXCEPT !.Result = [k \in MergedKinds(e) |-> <<>>]]
    ELSE r

\* append(library, gateway...)
appendGatewayFirst(library, gw) == gw \o library

appendGateway(library, gw) == library \o gw

\* A cut that keeps the end of the list.
TruncateTail(list, limit) ==
    IF Len(list) > limit THEN SubSeq(list, Len(list) - limit + 1, Len(list)) ELSE list

\* if len(list) > limit { list = list[:limit] }
Truncate(list, limit) ==
    IF Len(list) > limit THEN SubSeq(list, 1, limit) ELSE list

\* limit := h.cfg.SearchLimit; if limit <= 0 { limit = 50 }
EffectiveLimit(searchLimit) == IF searchLimit <= 0 THEN DefaultLimit ELSE searchLimit

\* The kinds Search3, Search2 and Search cut to the limit.
TruncatedKinds == {"song", "album", "artist"}

\* Search3, Search2, Search after wg.Wait()
SearchMerged(e, navidromeResult, squidResult, searchLimit) ==
    LET r0 == IF navidromeResult = None THEN Synthesized(e) ELSE ForceOK(navidromeResult)
        r1 == WithResult(e, r0)
        r2 == IF squidResult # None
              THEN [r1 EXCEPT !.Result =
                       [k \in MergedKinds(e) |-> appendGateway(r1.Result[k], squidResult[k])]]
              ELSE r1
        limit == EffectiveLimit(searchLimit)
    IN  [r2 EXCEPT !.Result =
            [k \in MergedKinds(e) |->
                IF k \in TruncatedKinds THEN Truncate(r2.Result[k], limit)
                ELSE r2.Result[k]]]

\* GetAlbumList2 (type=random) after wg.Wait(); squidAlbums is nil unless
\* the search succeeded.
GetAlbumList2Merged(navidromeResult, squidResult) ==
    LET e == "getAlbumList2"
        r0 == IF navidromeResult = None THEN Synthesized(e) ELSE navidromeResult
        r1 == WithResult(e, r0)
        squidAlbums == IF squidResult # None THEN squidResult["album"] ELSE <<>>
        limit == IF Len(squidAlbums) < InjectLimit THEN Len(squidAlbums) ELSE InjectLimit
    IN  [r1 EXCEPT !.Result =
            [k \in MergedKinds(e) |-> appendGateway(r1.Result[k], SubSeq(squidAlbums, 1, limit))]]

\* GetPlaylists after wg.Wait(); squidPlaylists is nil unless the search
\* succeeded.
GetPlaylistsMerged(navidromeResult, squidResult) ==
    LET e == "getPlaylists"
        r0 == IF navidromeResult = None THEN Synthesized(e) ELSE navidromeResult
        r1 == WithResult(e, r0)
        squidPlaylists == IF squidResult # None THEN squidResult["playlist"] ELSE <<>>
    IN  [r1 EXCEPT !.Result =
            [k \in MergedKinds(e) |-> appendGateway(r1.Result[k], squidPlaylists)]]

\* The response the handler of endpoint e sends.
Merged(e, navidromeResult, squidResult, searchLimit) ==
    CASE e \in SearchEndpoints -> SearchMerged(e, navidromeResult, squidResult, searchLimit)
      [] e = "getAlbumList2" -> GetAlbumList2Merged(navidromeResult, squidResult)
      [] e = "getPlaylists" -> GetPlaylistsMerged(navidromeResult, squidResult)

\* A merge request has arrived and both goroutines are started (wg.Add(2)).
MergeRequests ==
    [pc : {"fanout"}, endpoint : MergeEndpoints, searchLimit : SearchLimits,
     library : {None}, catalog : {None},
     navidromeResult : {None}, squidResult : {None},
     done : {<<>>}, resp : {None}]

InitMerge ==
    /\ Constructed
    /\ now = 0
    /\ op = "stream"
    /\ codec = NoCodec
    /\ merge \in MergeRequests
    /\ NoStreaming

Finished(task) == \E i \in 1 .. Len(merge.done) : merge.done[i] = task

\* Goroutine A: the library answers (or the request fails) and the
\* goroutine reaches wg.Done().
LibraryDone ==
    /\ merge.pc = "fanout"
    /\ ~Finished("library")
    /\ \E a \in LibraryAnswers(merge.endpoint) :
          merge' = [merge EXCEPT
                       !.library = a,
                       !.navidromeResult =
                           IF a.st = "neterr" THEN None ELSE Decode(merge.endpoint, a),
                       !.done = Append(@, "library")]
    /\ UNCHANGED <<gateway, codec, streaming>>

\* Goroutine B: the gateway's search returns and the goroutine reaches
\* wg.Done().
GatewayDone ==
    /\ merge.pc = "fanout"
    /\ ~Finished("gateway")
    /\ \E g \in GatewayAnswers :
          merge' = [merge EXCEPT
                       !.catalog = g,
                       !.squidResult =
                           IF g.err THEN None ELSE Search(g.items, merge.searchLimit),
                       !.done = Append(@, "gateway")]
    /\ UNCHANGED <<gateway, codec, streaming>>

\* wg.Wait() returns; the handler merges, truncates and sends.
MergeAndSend ==
    /\ merge.pc = "fanout"
    /\ Finished("library")
    /\ Finished("gateway")
    /\ merge' = [merge EXCEPT
                    !.pc = "sent",
                    !.resp = Merged(merge.endpoint, merge.navidromeResult,
                                    merge.squidResult, merge.searchLimit)]
    /\ UNCHANGED <<gateway, codec, streaming>>

NextMerge ==
    \/ LibraryDone
    \/ GatewayDone
    \/ MergeAndSend

SpecMerge == InitMerge /\ [][NextMerge]_vars

\* The entries of a list that came from one origin, in the list's order.
From(list, origin) == SelectSeq(list, LAMBDA x : x[1] = origin)

IsPrefix(s, t) == Len(s) <= Len(t) /\ s = SubSeq(t, 1, Len(s))

\* What the library and the gateway handed to the merge for kind k.
LibraryList(k) ==
    IF merge.navidromeResult = None THEN <<>>
    ELSE IF merge.navidromeResult.Result = None THEN <<>>
    ELSE merge.navidromeResult.Result[k]

GatewayList(k) ==
    IF merge.squidResult = None THEN <<>> ELSE merge.squidResult[k]

\* C13: in every merged response, for each kind, all library entries come
\* before all gateway entries and each origin's entries keep the order
\* their server gave them, whichever goroutine finished first.
C13_LibraryBeforeGateway ==
    merge.pc = "sent" =>
        \A k \in MergedKinds(merge.endpoint) :
            LET list == merge.resp.Result[k]
            IN  /\ list = From(list, "lib") \o From(list, "gw")
                /\ IsPrefix(From(list, "lib"), LibraryList(k))
                /\ IsPrefix(From(list, "gw"), GatewayList(k))

C13_Witness ==
    /\ merge.pc = "sent"
    /\ merge.endpoint = "search3"
    /\ merge.done = <<"gateway", "library">>
    /\ merge.resp.Result["song"] =
           <<<<"lib", 1>>, <<"lib", 2>>, <<"gw", 1>>, <<"gw", 2>>>>

\* The gateway branch returned results for the endpoint.
GatewayReturnedResults ==
    /\ merge.squidResult # None
    /\ \E k \in MergedKinds(merge.endpoint) : merge.squidResult[k] # <<>>

\* C14: for every merge endpoint, when the gateway branch returned results
\* the response sent has status ok and no error element, whatever the
\* library branch did (request failed, body did not parse, Subsonic error).
C14_GatewayResultsStatusOk ==
    (merge.pc = "sent" /\ GatewayReturnedResults) =>
        /\ merge.resp.Status = "ok"
        /\ merge.resp.Error = None

\* C15: in a merged search response no kind's list has more entries than
\* the limit (SEARCH_LIMIT, or 50 when that is not positive), and a kind
\* whose entries fit the limit is sent whole.
C15_EachKindWithinLimit ==
    (merge.pc = "sent" /\ merge.endpoint \in SearchEndpoints) =>
        \A k \in MergedKinds(merge.endpoint) :
            LET limit == EffectiveLimit(merge.searchLimit)
                all == LibraryList(k) \o GatewayList(k)
            IN  /\ Len(merge.resp.Result[k]) <= limit
                /\ Len(all) <= limit => merge.resp.Result[k] = all

\* The library's answers that are ok, decodable and empty.
EmptyOkAnswers(e) ==
    {a \in LibraryAnswers(e) :
        /\ a.st = "200"
        /\ a.Status = "ok"
        /\ a.Result # None => \A k \in DOMAIN a.Result : a.Result[k] = <<>>}

\* The search response was built without a library response.
BuiltWithoutLibrary ==
    /\ merge.pc = "sent"
    /\ merge.endpoint \in SearchEndpoints
    /\ merge.library = [st |-> "neterr"]

\* The response the handler builds from the same gateway results when the
\* library answers a.
BuiltWith(a) ==
    Merged(merge.endpoint, Decode(merge.endpoint, a), merge.squidResult, merge.searchLimit)

\* C16 (as claimed): the search response built when the library request
\* failed equals, field for field, the response built from the same gateway
\* results when the library returned an empty, decodable ok response.
C16_SameAsEmptyLibrary ==
    BuiltWithoutLibrary =>
        \A a \in EmptyOkAnswers(merge.endpoint) : BuiltWith(a) = merge.resp

\* C16 (amended): the two responses have the same status, the same error
\* (none) and the same list for every kind; the version is "1.16.1" when
\* the library request failed and the library's own version otherwise, so
\* the responses are identical when the library reports "1.16.1".
C16_SameButVersion ==
    BuiltWithoutLibrary =>
        /\ merge.resp.Version = Version
        /\ \A a \in EmptyOkAnswers(merge.endpoint) :
              /\ BuiltWith(a).Status = merge.resp.Status
              /\ BuiltWith(a).Error = merge.resp.Error
              /\ BuiltWith(a).Result = merge.resp.Result
              /\ BuiltWith(a).Version = a.Version
              /\ a.Version = Version => BuiltWith(a) = merge.resp

C16_Witness ==
    /\ BuiltWithoutLibrary
    /\ merge.endpoint = "search3"
    /\ merge.resp.Status = "ok"
    /\ merge.resp.Result["song"] = <<<<"gw", 1>>, <<"gw", 2>>>>
    /\ merge.resp.Result["album"] = <<>>

\* ------------------------------------------- stream dispatcher and sync
\* Handler.Stream (internal/handlers/stream.go) and SyncService.SyncSong
\* (internal/service/sync_service.go).  Requests are handled one after the
\* other; the sync tasks they start run beside them.

\* Stream requests in one behaviour.
MaxRequests == 2

\* ErrGeneric, ErrRequiredParameter, ErrDataNotFound
ErrGeneric == 0
ErrRequiredParameter == 10
ErrDataNotFound == 70

\* http.StatusOK, http.StatusPartialContent, http.StatusInternalServerError,
\* http.StatusBadGateway
StatusOK == 200
StatusPartialContent == 206
StatusInternalServerError == 500
StatusBadGateway == 502

\* The provider name every entity id is built with.
ProviderName == <<"s", "q", "u", "i", "d", "w", "t", "f">>
SongType == <<"s", "o", "n", "g">>
AlbumType == <<"a", "l", "b", "u", "m">>

\* The track of the catalog the requests are about.
TrackKey == <<"7">>

\* c.Query("id"): absent, a library id, the id the proxy hands out for the
\* track, the same track in the three-segment form, and the id of an album.
StreamIDs ==
    {<<>>,
     <<"4", "2">>,
     BuildID(ProviderName, SongType, TrackKey),
     ExtPrefix \o ProviderName \o <<Dash>> \o TrackKey,
     BuildID(ProviderName, AlbumType, TrackKey)}

\* c.Query("f")
Formats == {"", "xml", "json"}

\* manifest.MimeType
MimeTypes == {"audio/flac", "audio/mp4"}

\* item.Title as the gateway reports it.
SongTitles == {<<"t">>, <<" ", "a", "/", "b">>}

Digit(n) == <<"0", "1", "2", "3", "4", "5", "6", "7", "8", "9">>[n + 1]

\* fmt.Sprintf("%d", n), 0 <= n < 100
FormatInt(n) == IF n < 10 THEN <<Digit(n)>> ELSE <<Digit(n \div 10), Digit(n % 10)>>

\* fmt.Sprintf("%02d", n), 0 <= n < 100
FormatInt02(n) == <<Digit(n \div 10), Digit(n % 10)>>

\* The number a decimal numeral denotes (the id field of the gateway's
\* answer for the track asked by that numeral).
RECURSIVE Atoi(_)
Atoi(str) ==
    IF str = <<>> THEN 0
    ELSE 10 * Atoi(SubSeq(str, 1, Len(str) - 1))
            + (CHOOSE d \in 0 .. 9 : Digit(d) = str[Len(str)])

\* strings.TrimSpace
RECURSIVE TrimSpace(_)
TrimSpace(str) ==
    IF str = <<>> THEN str
    ELSE IF Head(str) = " " THEN TrimSpace(Tail(str))
    ELSE IF str[Len(str)] = " " THEN TrimSpace(SubSeq(str, 1, Len(str) - 1))
    ELSE str

\* SanitizePath
SanitizePath(p) ==
    TrimSpace([i \in 1 .. Len(p) |->
                  IF p[i] \in {"/", "\\", ":", "*", "?", "\"", "<", ">", "|"}
                  THEN "_" ELSE p[i]])

\* GetDownloadFormat with DOWNLOAD_FORMAT unset
GetDownloadFormat == <<"o", "p", "u", "s">>

\* fmt.Sprintf("%02d - [%s] %s.%s", track, id, SanitizePath(title), format)
FileName(track, id, title) ==
    FormatInt02(track) \o <<" ", "-", " ", "[">> \o id \o <<"]", " ">>
        \o SanitizePath(title) \o <<".">> \o GetDownloadFormat

\* filepath.Join: the non-empty elements, in order.
FilepathJoin(elems) == SelectSeq(elems, LAMBDA x : x # <<>>)

\* "/music", "jetstream"
MusicDir == <<"m", "u", "s", "i", "c">>
JetstreamDir == <<"j", "e", "t", "s", "t", "r", "e", "a", "m">>

\* Stream: localPath
LocalPath(song, externalID) ==
    FilepathJoin(<<MusicDir, JetstreamDir, SanitizePath(song.Artist), SanitizePath(song.Album),
                   FileName(song.Track, externalID, song.Title)>>)

\* SyncSong: outputPath
OutputPath(song) ==
    FilepathJoin(<<MusicDir, JetstreamDir, SanitizePath(song.Artist), SanitizePath(song.Album),
                   FileName(song.Track, song.ID, song.Title)>>)

\* GetSong: the Song built from the gateway's answer for the track the id
\* names (numericID is ParseID's fourth result).
SongFor(id, title) ==
    LET numericID == ParseID(id).externalID
    IN  [ID |-> BuildID(ProviderName, SongType, FormatInt(Atoi(numericID))),
         Title |-> title,
         Artist |-> <<"r">>,
         Album |-> <<"l">>,
         Track |-> 1]

\* os.Stat(path) succeeds and VerifyIntegrity(path) returns nil
LocalNever(path) == FALSE

Local(path) == path \in disk.good

\* What a finished request sent.
SubsonicError(code, cause) ==
    [kind |-> "subsonic", status |-> "failed", code |-> code, cause |-> cause,
     serialization |-> IF stream.f = "json" THEN "json" ELSE "xml"]

\* c.JSON(status, gin.H{"error": ...})
PlainError(httpStatus, cause) ==
    [kind |-> "plain", httpStatus |-> httpStatus, cause |-> cause, serialization |-> "json"]

InitStream ==
    /\ Constructed
    /\ now = 0
    /\ op = "stream"
    /\ codec = NoCodec
    /\ merge = NoMerge
    /\ NoStreaming

\* Stream: a request arrives; a missing id is refused.
StreamArrive ==
    /\ srv = "serving"
    /\ stream.pc \in {"idle", "done"}
    /\ served < MaxRequests
    /\ \E id \in StreamIDs, f \in Formats :
          LET req == [pc |-> "resolve", id |-> id, f |-> f, externalID |-> <<>>,
                      resolved |-> "no", song |-> None, local |-> "unchecked",
                      trackInfo |-> None, songRequests |-> 0,
                      urlRequests |-> 0, syncs |-> 0, connections |-> 0,
                      resp |-> None]
          IN  IF id = <<>>
              THEN /\ stream' = [req EXCEPT !.pc = "done",
                                     !.resp = [kind |-> "subsonic", status |-> "failed",
                                               code |-> ErrRequiredParameter,
                                               cause |-> "id",
                                               serialization |->
                                                   IF f = "json" THEN "json" ELSE "xml"]]
                   /\ served' = served + 1
              ELSE /\ stream' = req
                   /\ UNCHANGED served
    /\ UNCHANGED <<songs, disk, tasks, pathIndex, scan, srv, gateway, codec, merge>>

\* Stream forwarding every request whose id the resolver could look up.
ProxiedOnError(err, isVirtual) == err

\* Stream: the request goes to the library proxy when the resolver failed
\* or reported the id as not external.
Proxied(err, isVirtual) == err \/ ~isVirtual

\* ResolveVirtualID: an id with the prefix "ext-" is external as it is; a
\* library id is looked up at the library: the lookup fails (the library is
\* unreachable or its reply does not decode), or finds no external id and
\* gives the id back, or resolves it to the external id of the file.
StreamResolve ==
    /\ stream.pc = "resolve"
    /\ \E r \in IF IsExternalID(stream.id)
                THEN {[how |-> "prefix", id |-> stream.id, isVirtual |-> TRUE, err |-> FALSE]}
                ELSE {[how |-> "error", id |-> <<>>, isVirtual |-> FALSE, err |-> TRUE],
                      [how |-> "native", id |-> stream.id, isVirtual |-> FALSE,
                       err |-> FALSE],
                      [how |-> "virtual", id |-> BuildID(ProviderName, SongType, TrackKey),
                       isVirtual |-> TRUE, err |-> FALSE]} :
          IF Proxied(r.err, r.isVirtual)
          THEN /\ stream' = [stream EXCEPT !.pc = "done", !.resolved = r.how,
                                           !.resp = [kind |-> "proxied"]]
               /\ served' = served + 1
          ELSE /\ stream' = [stream EXCEPT !.pc = "song", !.resolved = r.how,
                                           !.externalID = r.id]
               /\ UNCHANGED served
    /\ UNCHANGED <<songs, disk, tasks, pathIndex, scan, srv, gateway, codec, merge>>

\* GetSong: from the cache, or from the gateway and then cached.
StreamGetSong ==
    /\ stream.pc = "song"
    /\ IF stream.externalID \in DOMAIN songs
       THEN /\ stream' = [stream EXCEPT !.pc = "local", !.songRequests = @ + 1,
                                        !.song = songs[stream.externalID]]
            /\ UNCHANGED <<served, songs>>
       ELSE \/ /\ stream' = [stream EXCEPT !.pc = "done", !.songRequests = @ + 1,
                                           !.resp = SubsonicError(ErrDataNotFound, "song")]
               /\ served' = served + 1
               /\ UNCHANGED songs
            \/ \E title \in SongTitles :
                  LET song == SongFor(stream.externalID, title)
                  IN  /\ stream' = [stream EXCEPT !.pc = "local", !.songRequests = @ + 1,
                                                  !.song = song]
                      /\ songs' = songs @@ (stream.externalID :> song)
                      /\ UNCHANGED served
    /\ UNCHANGED <<disk, tasks, pathIndex, scan, srv, gateway, codec, merge>>

\* The local check: a published file that verifies is served.
StreamLocal ==
    /\ stream.pc = "local"
    /\ IF Local(LocalPath(stream.song, stream.externalID))
       THEN /\ stream' = [stream EXCEPT
                              !.pc = "done",
                              !.local = "usable",
                              !.resp = [kind |-> "file",
                                        path |-> LocalPath(stream.song, stream.externalID)]]
            /\ served' = served + 1
       ELSE /\ stream' = [stream EXCEPT !.pc = "url", !.local = "unusable"]
            /\ UNCHANGED served
    /\ UNCHANGED <<songs, disk, tasks, pathIndex, scan, srv, gateway, codec, merge>>

\* GetStreamURL, and on success the sync task is started.
StreamGetURL ==
    /\ stream.pc = "url"
    /\ \/ /\ stream' = [stream EXCEPT !.pc = "done",
                                      !.urlRequests = @ + 1,
                                      !.resp = SubsonicError(ErrGeneric, "stream")]
          /\ served' = served + 1
          /\ UNCHANGED tasks
       \/ \E mime \in MimeTypes :
             /\ stream' = [stream EXCEPT !.pc = "cdn",
                                         !.trackInfo = [MimeType |-> mime],
                                         !.urlRequests = @ + 1,
                                         !.syncs = @ + 1]
             /\ tasks' = Append(tasks, [pc |-> "start", song |-> stream.song,
                                        externalID |-> stream.externalID,
                                        request |-> served + 1, fd |-> "none",
                                        urlRequests |-> 0, transcodes |-> 0,
                                  args |-> <<>>, err |-> "nil"])
             /\ UNCHANGED served
    /\ UNCHANGED <<songs, disk, pathIndex, scan, srv, gateway, codec, merge>>

\* c.Status: Partial Content when the CDN sent Content-Range, else OK.
RelayStatusOK(contentRange) == StatusOK

RelayStatus(contentRange) ==
    IF contentRange THEN StatusPartialContent ELSE StatusOK

\* What the CDN exchange produces: the request cannot be built, the
\* connection fails, or an answer with or without Content-Range.
CDNAnswers ==
    {[st |-> "badurl"], [st |-> "neterr"]} \cup [st : {"ok"}, contentRange : BOOLEAN]

\* The stream is fetched from the CDN and relayed.
StreamProxy ==
    /\ stream.pc = "cdn"
    /\ \E a \in CDNAnswers :
          /\ stream' = [stream EXCEPT
                           !.pc = "done",
                           !.connections = IF a.st = "badurl" THEN @ ELSE @ + 1,
                           !.resp =
                               CASE a.st = "badurl" ->
                                        PlainError(StatusInternalServerError, "request")
                                 [] a.st = "neterr" ->
                                        PlainError(StatusBadGateway, "cdn")
                                 [] a.st = "ok" ->
                                        [kind |-> "relay",
                                         httpStatus |-> RelayStatus(a.contentRange),
                                         ContentType |-> stream.trackInfo.MimeType,
                                         AcceptRanges |-> "bytes",
                                         ContentRange |-> a.contentRange,
                                         upstream |-> a]]
          /\ served' = served + 1
    /\ UNCHANGED <<songs, disk, tasks, pathIndex, scan, srv, gateway, codec, merge>>

\* saveMetadata: the sidecar is written next to the file and the index
\* entry "path:<id>" is set; a write that fails is logged, a Set that fails
\* is ignored, and the caller is told of neither.
saveMetadata(song, mediaPath) ==
    /\ \E written \in BOOLEAN :
          disk' = IF written
                  THEN [disk EXCEPT !.json = (mediaPath :> song) @@ @]
                  ELSE disk
    /\ \E set \in BOOLEAN :
          pathIndex' = IF set THEN (song.ID :> mediaPath) @@ pathIndex ELSE pathIndex

\* SyncSong up to the transcoder: the directory is made; a file that is
\* there and verifies has its sidecar and index entry ensured and ends the
\* task; else (no file, or one that does not verify) a stream URL is asked
\* for.
SyncSongStart(i) ==
    /\ tasks[i].pc = "start"
    /\ LET song == tasks[i].song
           outputPath == OutputPath(song)
       IN  \/ /\ tasks' = [tasks EXCEPT ![i].pc = "failed"]
              /\ UNCHANGED <<disk, pathIndex>>
           \/ /\ outputPath \in disk.good
              /\ saveMetadata(song, outputPath)
              /\ tasks' = [tasks EXCEPT ![i].pc = "complete"]
           \/ /\ outputPath \notin disk.good
              /\ \E pc \in {"failed", "transcode"} :
                    tasks' = [tasks EXCEPT ![i].pc = pc, ![i].urlRequests = @ + 1]
              /\ UNCHANGED <<disk, pathIndex>>
    /\ UNCHANGED <<stream, served, songs, scan, srv, gateway, codec, merge>>

\* The sync tasks whose transcoder has the file at tmpOutputPath open.
Writing(tmpOutputPath) ==
    {j \in 1 .. Len(tasks) : /\ tasks[j].pc = "writing"
                             /\ tasks[j].fd = "tmp"
                             /\ OutputPath(tasks[j].song) = tmpOutputPath}

\* downloadAndTranscode, the transcoder is started with the cover as second
\* input and -f <format>: ffmpeg -y opens outputPath + ".tmp", emptying a
\* file that is there; a transcoder that has that file open goes on
\* writing into it.  The .tmp files are kept by the output path they
\* belong to.
downloadAndTranscode(i) ==
    /\ tasks[i].pc = "transcode"
    /\ LET outputPath == OutputPath(tasks[i].song)
       IN  /\ disk' = [disk EXCEPT !.tmp =
                          (outputPath :> [by |-> {i} \cup Writing(outputPath),
                                          ok |-> FALSE]) @@ @]
           /\ tasks' = [tasks EXCEPT ![i].pc = "writing", ![i].fd = "tmp",
                                     ![i].transcodes = @ + 1,
                                     ![i].args = [cover |-> TRUE, f |-> GetDownloadFormat]]
    /\ UNCHANGED <<stream, served, songs, pathIndex, scan, srv, gateway, codec, merge>>

\* downloadAndTranscode, the transcoder exits.  When it failed because the
\* 15 minutes ran out, tmpOutputPath is removed, under whoever writes it,
\* and the task fails.  When it failed otherwise, ffmpeg is run once more
\* with argsNoCover: one input, no -f; the name it is to write ends in
\* .tmp, from which ffmpeg cannot tell the format, so this run fails
\* before it opens the file; tmpOutputPath is removed and the task fails.
\* When the first run succeeded the file
\* it wrote is complete and verifies or does not (a stream of a second or
\* less, a file another transcoder wrote into): that is the .tmp file, or
\* the published file if the .tmp file was renamed while it was written.
FfmpegExit(i) ==
    /\ tasks[i].pc = "writing"
    /\ LET outputPath == OutputPath(tasks[i].song)
           argsNoCover == [cover |-> FALSE, f |-> <<>>]
       IN  \/ /\ disk' = [disk EXCEPT !.tmp =
                             [q \in DOMAIN @ \ {outputPath} |-> @[q]]]
              /\ \E deadline \in BOOLEAN :
                    tasks' = [j \in 1 .. Len(tasks) |->
                                 IF j = i
                                 THEN IF deadline
                                      THEN [tasks[j] EXCEPT !.pc = "failed", !.fd = "none",
                                                            !.err = "ffmpeg timed out"]
                                      ELSE [tasks[j] EXCEPT !.pc = "failed", !.fd = "none",
                                                            !.transcodes = @ + 1,
                                                            !.args = argsNoCover,
                                                            !.err = "ffmpeg failed"]
                                 ELSE IF j \in Writing(outputPath)
                                 THEN [tasks[j] EXCEPT !.fd = "unlinked"]
                                 ELSE tasks[j]]
           \/ /\ \E ok \in BOOLEAN :
                    disk' =
                       CASE tasks[i].fd = "tmp" ->
                                [disk EXCEPT !.tmp[outputPath].ok = ok]
                         [] tasks[i].fd = "final"
                              /\ outputPath \in disk.good \cup disk.corrupt ->
                                [disk EXCEPT
                                    !.good = IF ok THEN @ \cup {outputPath}
                                             ELSE @ \ {outputPath},
                                    !.corrupt = IF ok THEN @ \ {outputPath}
                                                ELSE @ \cup {outputPath}]
                         [] OTHER -> disk
              /\ tasks' = [tasks EXCEPT ![i].pc = "rename", ![i].fd = "none"]
    /\ UNCHANGED <<stream, served, songs, pathIndex, scan, srv, gateway, codec, merge>>

\* downloadAndTranscode, os.Rename(tmpOutputPath, outputPath): the .tmp
\* file that is there, whoever wrote it, takes the place of the file at the
\* output path; a transcoder that has it open now writes the published
\* file.  Without a .tmp file the rename fails and so does the task.
Rename(i) ==
    /\ tasks[i].pc = "rename"
    /\ LET outputPath == OutputPath(tasks[i].song)
       IN  IF outputPath \notin DOMAIN disk.tmp
           THEN /\ tasks' = [tasks EXCEPT ![i].pc = "failed"]
                /\ UNCHANGED disk
           ELSE /\ disk' = [disk EXCEPT
                               !.good = IF disk.tmp[outputPath].ok
                                        THEN @ \cup {outputPath}
                                        ELSE @ \ {outputPath},
                               !.corrupt = IF disk.tmp[outputPath].ok
                                           THEN @ \ {outputPath}
                                           ELSE @ \cup {outputPath},
                               !.by = (outputPath :> disk.tmp[outputPath].by) @@ @,
                               !.tmp = [q \in DOMAIN @ \ {outputPath} |-> @[q]]]
                /\ tasks' = [j \in 1 .. Len(tasks) |->
                                IF j = i
                                THEN [tasks[j] EXCEPT !.pc = "verify"]
                                ELSE IF j \in Writing(outputPath)
                                THEN [tasks[j] EXCEPT !.fd = "final"]
                                ELSE tasks[j]]
    /\ UNCHANGED <<stream, served, songs, pathIndex, scan, srv, gateway, codec, merge>>

\* downloadAndTranscode after the rename: os.Stat, VerifyIntegrity, then
\* saveMetadata, or os.Remove of a file that does not verify (its result
\* is not looked at).  When the file is gone the task ends without error.
VerifyPublished(i) ==
    /\ tasks[i].pc = "verify"
    /\ LET outputPath == OutputPath(tasks[i].song)
       IN  CASE outputPath \in disk.good ->
                    /\ saveMetadata(tasks[i].song, outputPath)
                    /\ tasks' = [tasks EXCEPT ![i].pc = "complete"]
             [] outputPath \in disk.corrupt ->
                    /\ \E removed \in BOOLEAN :
                          disk' = IF removed
                                  THEN [disk EXCEPT
                                           !.corrupt = @ \ {outputPath},
                                           !.by = [q \in DOMAIN @ \ {outputPath} |-> @[q]]]
                                  ELSE disk
                    /\ tasks' = [tasks EXCEPT ![i].pc = "failed"]
                    /\ UNCHANGED pathIndex
             [] OTHER ->
                    /\ tasks' = [tasks EXCEPT ![i].pc = "complete"]
                    /\ UNCHANGED <<disk, pathIndex>>
    /\ UNCHANGED <<stream, served, songs, scan, srv, gateway, codec, merge>>

\* A published file is damaged between two requests.
FileDamaged ==
    /\ stream.pc \in {"idle", "done"}
    /\ served < MaxRequests
    /\ \E p \in disk.good :
          disk' = [disk EXCEPT !.good = @ \ {p}, !.corrupt = @ \cup {p}]
    /\ UNCHANGED <<stream, served, songs, tasks, pathIndex, scan, srv, gateway, codec, merge>>

NextStream ==
    \/ StreamArrive
    \/ StreamResolve
    \/ StreamGetSong
    \/ StreamLocal
    \/ StreamGetURL
    \/ StreamProxy
    \/ \E i \in 1 .. Len(tasks) : SyncSongStart(i)
    \/ \E i \in 1 .. Len(tasks) : downloadAndTranscode(i)
    \/ \E i \in 1 .. Len(tasks) : FfmpegExit(i)
    \/ \E i \in 1 .. Len(tasks) : Rename(i)
    \/ \E i \in 1 .. Len(tasks) : VerifyPublished(i)
    \/ FileDamaged

SpecStream == InitStream /\ [][NextStream]_vars

\* ------------------------------------------------------------ sync worker
\* The sync worker and the maintenance scan on their own: SyncSong is
\* started for a track, as the dispatcher and SyncAlbum start it, while
\* other runs for the same or another track and a scan are under way.

\* SyncSong runs started in one behaviour.
MaxSyncs == 2

InitSync ==
    /\ Constructed
    /\ now = 0
    /\ op = "stream"
    /\ codec = NoCodec
    /\ merge = NoMerge
    /\ NoStreaming

\* go SyncSong(context.Background(), song), for a track of one provider
\* key under one of two titles.
GoSyncSong ==
    /\ Len(tasks) < MaxSyncs
    /\ \E song \in {SongFor(BuildID(ProviderName, SongType, TrackKey), title) :
                        title \in SongTitles} :
          tasks' = Append(tasks, [pc |-> "start", song |-> song, externalID |-> song.ID,
                                  request |-> 0, fd |-> "none",
                                  urlRequests |-> 0, transcodes |-> 0,
                                  args |-> <<>>, err |-> "nil"])
    /\ UNCHANGED <<stream, served, songs, disk, pathIndex, scan, srv, gateway, codec, merge>>

\* MaintenanceScan, the test on the extension: filepath.Ext of the path
\* (the suffix of its last element from the last dot on), lower-cased, is
\* one of .opus, .mp3, .aac, .flac.
IsAudio(path) ==
    LET name  == path[Len(path)]
        dots  == {i \in 1 .. Len(name) : name[i] = "."}
        ext   == IF dots = {} THEN <<>>
                 ELSE SubSeq(name, CHOOSE i \in dots : \A j \in dots : j <= i, Len(name))
        upper == <<"A", "C", "F", "L", "M", "O", "P", "S", "U">>
        lower == <<"a", "c", "f", "l", "m", "o", "p", "s", "u">>
        ToLower(c) == IF \E i \in 1 .. Len(upper) : upper[i] = c
                      THEN lower[CHOOSE i \in 1 .. Len(upper) : upper[i] = c]
                      ELSE c
    IN  [i \in 1 .. Len(ext) |-> ToLower(ext[i])]
            \in {<<".", "o", "p", "u", "s">>, <<".", "m", "p", "3">>,
                 <<".", "a", "a", "c">>, <<".", "f", "l", "a", "c">>}

\* MaintenanceScan is called: filepath.Walk reads the names in the folder,
\* the audio files, the .tmp files and the .json sidecars next to them.
\* With no file the scan is complete at once.
ScanStart ==
    /\ scan.pc = "idle"
    /\ LET names == disk.good \cup disk.corrupt
                       \cup {[p EXCEPT ![Len(p)] = @ \o <<".", "t", "m", "p">>] :
                                p \in DOMAIN disk.tmp}
                       \cup {[p EXCEPT ![Len(p)] = @ \o <<".", "j", "s", "o", "n">>] :
                                p \in DOMAIN disk.json}
       IN  scan' = [pc |-> IF names = {} THEN "done" ELSE "walking",
                    todo |-> names, total |-> 0, corrupt |-> 0]
    /\ UNCHANGED <<stream, served, songs, disk, tasks, pathIndex, srv, gateway, codec, merge>>

\* MaintenanceScan, the callback for one file (Walk's lexical order is one
\* of the orders taken).  A file that is gone and a file that is no audio
\* file are passed over.  An audio file is counted; one that does not
\* verify is counted as corrupt and removed with its sidecar, the result of
\* neither os.Remove looked at; one that verifies has its index entry set
\* from its sidecar, if it has one and the context is live.  Then the
\* context is looked at: when the request was cancelled the walk stops
\* here.
ScanVisit ==
    /\ scan.pc = "walking"
    /\ \E path \in scan.todo, cancelled \in BOOLEAN :
          LET probed == path \in disk.good \cup disk.corrupt /\ IsAudio(path)
          IN  /\ CASE probed /\ path \in disk.corrupt ->
                          /\ \E removed \in BOOLEAN, sidecar \in BOOLEAN :
                                disk' = [disk EXCEPT
                                            !.corrupt = IF removed THEN @ \ {path} ELSE @,
                                            !.by = IF removed
                                                   THEN [q \in DOMAIN @ \ {path} |-> @[q]]
                                                   ELSE @,
                                            !.json = IF sidecar
                                                     THEN [q \in DOMAIN @ \ {path} |-> @[q]]
                                                     ELSE @]
                          /\ UNCHANGED pathIndex
                   [] probed /\ path \in disk.good ->
                          /\ pathIndex' = IF path \in DOMAIN disk.json /\ ~cancelled
                                          THEN (disk.json[path].ID :> path) @@ pathIndex
                                          ELSE pathIndex
                          /\ UNCHANGED disk
                   [] OTHER -> UNCHANGED <<disk, pathIndex>>
              /\ scan' = [pc |-> IF cancelled /\ probed
                                 THEN "cancelled"
                                 ELSE IF scan.todo = {path} THEN "done" ELSE "walking",
                          todo |-> scan.todo \ {path},
                          total |-> scan.total + (IF probed THEN 1 ELSE 0),
                          corrupt |-> scan.corrupt
                                         + (IF probed /\ path \in disk.corrupt THEN 1 ELSE 0)]
    /\ UNCHANGED <<stream, served, songs, tasks, srv, gateway, codec, merge>>

NextSync ==
    \/ GoSyncSong
    \/ \E i \in 1 .. Len(tasks) : SyncSongStart(i)
    \/ \E i \in 1 .. Len(tasks) : downloadAndTranscode(i)
    \/ \E i \in 1 .. Len(tasks) : FfmpegExit(i)
    \/ \E i \in 1 .. Len(tasks) : Rename(i)
    \/ \E i \in 1 .. Len(tasks) : VerifyPublished(i)
    \/ FileDamaged
    \/ ScanStart
    \/ ScanVisit

SpecSync == InitSync /\ [][NextSync]_vars

\* ------------------------------------------------- cancellation, shutdown
\* The client of the stream request goes away while the stream is relayed:
\* the request's context is cancelled and the relay ends.  The sync task
\* was started with context.Background() and is not told.
ClientGone ==
    /\ stream.pc = "cdn"
    /\ stream' = [stream EXCEPT !.pc = "done", !.resp = [kind |-> "gone"]]
    /\ served' = served + 1
    /\ UNCHANGED <<songs, disk, tasks, pathIndex, scan, srv, gateway, codec, merge>>

\* main: SIGINT or SIGTERM arrives and srv.Shutdown is called: the listener
\* is closed, and the requests in hand are waited for, ten seconds at
\* most.  Neither a request's context nor a sync task's is cancelled; the
\* tasks run on until the process exits.
Shutdown ==
    /\ srv = "serving"
    /\ srv' = "shutdown"
    /\ UNCHANGED <<stream, served, songs, disk, tasks, pathIndex, scan, gateway, codec, merge>>

NextShutdown ==
    \/ NextStream
    \/ ClientGone
    \/ Shutdown

SpecShutdown == InitStream /\ [][NextShutdown]_vars

\* The dispatcher is at its local check and the file it looks for is
\* published and verifies.
LocalFileUsable ==
    /\ stream.pc = "local"
    /\ LocalPath(stream.song, stream.externalID) \in disk.good

\* C17: a stream request whose published file exists and verifies is
\* answered with the local file, and the request has asked the gateway for
\* no stream URL, started no sync task and opened no CDN connection.
C17_LocalFileServed ==
    [][(LocalFileUsable /\ stream' # stream) =>
           /\ stream'.pc = "done"
           /\ stream'.resp = [kind |-> "file",
                              path |-> LocalPath(stream.song, stream.externalID)]
           /\ stream'.urlRequests = 0
           /\ stream'.syncs = 0
           /\ stream'.connections = 0
           /\ tasks' = tasks]_vars

C17_Witness ==
    /\ stream.pc = "done"
    /\ stream.id = BuildID(ProviderName, SongType, TrackKey)
    /\ stream.resp.kind = "file"
    /\ stream.urlRequests = 0
    /\ Len(tasks) = 1
    /\ tasks[1].pc = "complete"

\* The request is answered and its local file was missing or did not
\* verify.
AnsweredWithoutLocalFile ==
    /\ stream.pc = "done"
    /\ stream.local = "unusable"

\* The sync tasks the answered request started.
StartedHere == {i \in 1 .. Len(tasks) : tasks[i].request = served}

\* The answer relays the CDN's answer as the dispatcher should.
RelayedAsRequired ==
    /\ stream.resp.kind = "relay"
    /\ stream.resp.httpStatus =
           (IF stream.resp.upstream.contentRange THEN StatusPartialContent ELSE StatusOK)
    /\ stream.resp.ContentRange = stream.resp.upstream.contentRange
    /\ stream.resp.ContentType = stream.trackInfo.MimeType
    /\ stream.resp.AcceptRanges = "bytes"

\* C18 (as claimed): a stream request whose local file is missing or does
\* not verify starts exactly one sync task and is answered with 206 when
\* the CDN's answer carries Content-Range and 200 otherwise, with the
\* manifest's mime type as Content-Type and Accept-Ranges: bytes.
C18_OneSyncAndRelay ==
    AnsweredWithoutLocalFile =>
        /\ Cardinality(StartedHere) = 1
        /\ RelayedAsRequired

\* C18 (amended): such a request starts exactly one sync task when the
\* gateway yields a stream URL and none when it does not (the request is
\* then refused with the generic error); when the CDN answers, the client
\* receives 206 with Content-Range or 200 without, the manifest's mime type
\* and Accept-Ranges: bytes; when the CDN exchange fails the task has been
\* started all the same.
C18_OneSyncOnceURLKnown ==
    AnsweredWithoutLocalFile =>
        /\ Cardinality(StartedHere) = stream.syncs
        /\ stream.urlRequests = 1
        /\ IF stream.trackInfo = None
           THEN /\ stream.syncs = 0
                /\ stream.resp.kind = "subsonic"
                /\ stream.resp.code = ErrGeneric
           ELSE /\ stream.syncs = 1
                /\ stream.resp.kind \in {"relay", "plain"}
                /\ stream.resp.kind = "relay" => RelayedAsRequired
                /\ stream.resp.kind = "relay" => stream.connections = 1

C18_Witness ==
    /\ AnsweredWithoutLocalFile
    /\ stream.id = BuildID(ProviderName, SongType, TrackKey)
    /\ Cardinality(StartedHere) = 1
    /\ stream.resp.kind = "relay"
    /\ stream.resp.httpStatus = StatusPartialContent
    /\ stream.resp.ContentType = "audio/flac"

\* A sync task started by a stream request for id has completed and the
\* file it published is still in place and verifies.
SyncCompleted(id) ==
    \E i \in 1 .. Len(tasks) :
        /\ tasks[i].externalID = id
        /\ tasks[i].pc = "complete"
        /\ OutputPath(tasks[i].song) \in disk.good

\* C19: once the sync task started by stream(id) has completed, the next
\* stream(id) finds the published file at the path the dispatcher computes
\* (the sync worker's path and the dispatcher's path are the same), serves
\* it from disk and starts no sync task; for every external id.
C19_NextStreamFromDisk ==
    [][(/\ stream.pc = "local"
        /\ HasPrefix(stream.id, ExtPrefix)
        /\ SyncCompleted(stream.id)
        /\ stream' # stream) =>
           /\ \A i \in 1 .. Len(tasks) :
                 tasks[i].externalID = stream.id =>
                     OutputPath(tasks[i].song) = LocalPath(stream.song, stream.externalID)
           /\ stream'.resp = [kind |-> "file",
                              path |-> LocalPath(stream.song, stream.externalID)]
           /\ tasks' = tasks]_vars

\* The dispatcher answered with a failure.
AnsweredWithFailure ==
    /\ stream.pc = "done"
    /\ stream.resp.kind \in {"subsonic", "plain"}

\* C20: every failure of the stream dispatcher is answered in the Subsonic
\* shape (status failed, an error with code and message) in the
\* serialization the client asked for, with code 10 for a missing id, 70
\* when the song cannot be resolved, and 0 when the stream URL cannot be
\* obtained or the CDN exchange fails.
C20_FailuresSubsonicShaped ==
    AnsweredWithFailure =>
        /\ stream.resp.kind = "subsonic"
        /\ stream.resp.status = "failed"
        /\ stream.resp.serialization = (IF stream.f = "json" THEN "json" ELSE "xml")
        /\ stream.resp.code =
               CASE stream.resp.cause = "id" -> ErrRequiredParameter
                 [] stream.resp.cause = "song" -> ErrDataNotFound
                 [] OTHER -> ErrGeneric

\* The resolver failed on the request's id, or reported it as not external.
NotResolvedExternal ==
    /\ stream.pc # "idle"
    /\ stream.resolved \in {"error", "native"}

\* C21: a stream request whose id does not carry the external prefix, and
\* for which the resolver fails or reports the id as not external, is
\* forwarded to the library proxy: the dispatcher asks the gateway neither
\* for the song nor for a stream URL and starts no sync task.
C21_UnresolvedGoesToProxy ==
    NotResolvedExternal =>
        /\ stream.pc = "done"
        /\ stream.resp = [kind |-> "proxied"]
        /\ ~HasPrefix(stream.id, ExtPrefix)
        /\ stream.songRequests = 0
        /\ stream.urlRequests = 0
        /\ stream.syncs = 0
        /\ \A i \in 1 .. Len(tasks) : tasks[i].request # served

\* The last request was forwarded to the proxy after a failed lookup.
C21_Witness ==
    /\ NotResolvedExternal
    /\ stream.resolved = "error"
    /\ stream.resp = [kind |-> "proxied"]
    /\ served = MaxRequests

\* A resolver has been applied to an identifier a client sent.
Resolved == codec.op = "resolved"

\* C30: a resolver returns an identifier unchanged as external, without
\* asking the library, exactly when the ID codec decodes the identifier
\* to External: what ParseID classifies as Native (such as "ext-" or
\* "ext-x") is not taken for external by any of the three resolvers.
C30_ResolverAgreesWithCodec ==
    Resolved =>
        ((codec.isVirtual /\ ~codec.queried /\ codec.res = codec.id)
             <=> ParseID(codec.id).isExternal)

\* The audio files visible at a final path.
Published == disk.good \cup disk.corrupt

\* A step of a sync task.
SyncStep == tasks' # tasks

\* C22: no sync step, in the middle of a sync or of a re-sync over a
\* corrupt file either, makes a file visible at a final (non-.tmp) path
\* that does not pass the integrity check: every audio file a sync puts
\* under the published root has a probe duration of a second or more.
C22_PublishedOnlyVerified ==
    [][SyncStep => disk'.corrupt \subseteq disk.corrupt]_vars

\* A sync task takes its first step while an earlier SyncSong for the same
\* Song has returned success and the file it published is there and
\* verifies.
SecondSyncSong(i) ==
    /\ tasks[i].pc = "start"
    /\ tasks'[i].pc # "start"
    /\ OutputPath(tasks[i].song) \in disk.good
    /\ \E j \in 1 .. Len(tasks) :
          /\ tasks[j].pc = "complete"
          /\ tasks[j].song = tasks[i].song

\* C23: a second SyncSong on the same Song after a first successful one
\* does nothing past the existence check: it asks for no stream URL,
\* starts no transcoder, makes no .tmp file, and leaves the published
\* file, the sidecar's contents and the index entry as they were.
C23_SecondSyncNoOp ==
    [][\A i \in 1 .. Len(tasks) :
          SecondSyncSong(i) =>
              /\ tasks'[i].pc \in {"complete", "failed"}
              /\ tasks'[i].urlRequests = 0
              /\ tasks'[i].transcodes = 0
              /\ disk' = disk
              /\ pathIndex' = pathIndex]_vars

\* C24: in every state, each file at its final published path has the
\* index entry "path:<id>" of the track it was synced for, pointing to it,
\* from the moment it is visible under its final name.
C24_PublishedIsIndexed ==
    \A i \in 1 .. Len(tasks) :
        OutputPath(tasks[i].song) \in Published =>
            /\ tasks[i].song.ID \in DOMAIN pathIndex
            /\ pathIndex[tasks[i].song.ID] = OutputPath(tasks[i].song)

\* C25: whenever SyncSong returns success the file is published under the
\* name built from track number, id, title and format, and its ".json"
\* sidecar is there and holds the Song; a sync that could not write the
\* sidecar does not report success.
C25_SuccessHasSidecar ==
    [][\A i \in 1 .. Len(tasks) :
          (tasks[i].pc # "complete" /\ tasks'[i].pc = "complete") =>
              LET mediaPath == FilepathJoin(<<MusicDir, JetstreamDir,
                                   SanitizePath(tasks[i].song.Artist),
                                   SanitizePath(tasks[i].song.Album),
                                   FileName(tasks[i].song.Track, tasks[i].song.ID,
                                            tasks[i].song.Title)>>)
              IN  /\ mediaPath \in disk'.good
                  /\ mediaPath \in DOMAIN disk'.json
                  /\ disk'.json[mediaPath] = tasks[i].song]_vars

\* C26: when a maintenance scan completes, by running to its end or by
\* stopping on a cancelled context, with or without a deletion that
\* failed and with or without sync tasks publishing meanwhile, every audio
\* file under the published root passes the integrity check.
C26_ScanLeavesOnlyVerified ==
    [][(scan.pc # scan'.pc /\ scan'.pc \in {"done", "cancelled"}) =>
          disk'.corrupt = {}]_vars

\* C27: two sync tasks for the same track meet at the rename only: no
\* .tmp file is written by more than one transcoder, and the file at the
\* final path was written by a single transcoder run.
C27_OneWriterPerFile ==
    /\ \A p \in DOMAIN disk.tmp : Cardinality(disk.tmp[p].by) <= 1
    /\ \A p \in DOMAIN disk.by : Cardinality(disk.by[p]) <= 1

\* C28: once an audio file is visible at its final path no operation
\* writes to it or replaces its content; the one thing that can happen to
\* it is its deletion after a failed integrity check.
C28_PublishedNeverRewritten ==
    [][(SyncStep \/ scan' # scan) =>
          \A p \in Published :
              IF p \in disk'.good \cup disk'.corrupt
              THEN /\ disk'.by[p] = disk.by[p]
                   /\ (p \in disk'.good) <=> (p \in disk.good)
              ELSE p \in disk.corrupt]_vars

\* The client went away while its stream was relayed.
ClientWentAway ==
    /\ stream.pc = "cdn"
    /\ stream'.pc = "done"
    /\ stream'.resp = [kind |-> "gone"]

\* C29: the cancellation of a stream request after its background sync was
\* started does not abort the sync, which runs in a scope of its own; a
\* graceful-shutdown signal cancels the sync's scope as well as the
\* request's, so that after the signal a sync task takes no step but to
\* give up.
C29_ShutdownCancelsSync ==
    [][/\ ClientWentAway => tasks' = tasks
       /\ srv = "shutdown" =>
             \A i \in 1 .. Len(tasks) : tasks'[i].pc \in {tasks[i].pc, "failed"}]_vars

\* A search response was sent.
SearchSent == merge.pc = "sent" /\ merge.endpoint \in SearchEndpoints

C37_IndexLeavesOnlyCooledEndpoint ==
    [][currentURLIndex' # currentURLIndex =>
          /\ currentURLIndex' = (currentURLIndex + 1) % NumEndpoints
          /\ urlStates'[currentURLIndex] > now']_vars

\* C38: a gateway call whose caller's context is cancelled stops without
\* penalising the endpoints: after the cancellation the fallback driver
\* makes no further attempt, no endpoint's NextAvailable is moved into the
\* future and the index is not advanced.  (The search, beside which another
\* request runs, is left aside: its queries never touch the table.)
C38_CancelledCallLeavesTable ==
    [][(call.ctx = "cancelled" /\ op # "search") =>
          /\ urlStates' = urlStates
          /\ currentURLIndex' = currentURLIndex
          /\ \A d \in Drivers : drv[d].pc # "act" => drv'[d].pc # "act"]_vars

\* --------------------------------------------------------- integrity probe
\* VerifyIntegrity on its own: ffprobe is run on a file and prints the
\* duration of its format, or fails.

\* What ffprobe prints: a decimal numeral, blanks around it, "N/A", nothing,
\* or something that is no numeral.
ProbeOutputs ==
    StringsOver({"0", "1", "9", ".", " ", "x"}, MaxLen) \cup {<<"N", "/", "A">>}

\* strconv.ParseFloat(s, 64) on the numerals ffprobe prints: digits with at
\* most one point and at least one digit; the value is kept in units of
\* 10^-MaxLen seconds.
ParseFloat(s) ==
    LET points == {i \in 1 .. Len(s) : s[i] = "."}
        point  == IF points = {} THEN Len(s) + 1 ELSE CHOOSE i \in points : TRUE
        whole  == SubSeq(s, 1, point - 1)
        frac   == SubSeq(s, point + 1, Len(s))
        syntax == /\ \A i \in 1 .. Len(s) : s[i] \in {Digit(d) : d \in 0 .. 9} \cup {"."}
                  /\ Cardinality(points) <= 1
                  /\ Len(whole) + Len(frac) > 0
    IN  IF syntax
        THEN [err |-> FALSE,
              val |-> Atoi(whole) * 10^MaxLen + Atoi(frac) * 10^(MaxLen - Len(frac))]
        ELSE [err |-> TRUE, val |-> 0]

\* VerifyIntegrity: the error it returns ("nil": none) for what ffprobe
\* did (failed: it exited non-zero or ran into the 30 seconds) and printed.
VerifyIntegrity(failed, output) ==
    LET durationStr == TrimSpace(output)
    IN  IF failed THEN "ffprobe failed"
        ELSE IF durationStr = <<>> \/ durationStr = <<"N", "/", "A">>
        THEN "could not determine file duration"
        ELSE IF ParseFloat(durationStr).err THEN "failed to parse duration"
        ELSE IF ParseFloat(durationStr).val <= 10^MaxLen THEN "file duration too short"
        ELSE "nil"

InitVerify ==
    /\ Constructed
    /\ now = 0
    /\ op = "stream"
    /\ codec = NoCodec
    /\ merge = NoMerge
    /\ stream = NoStream
    /\ served = 0
    /\ songs = <<>>
    /\ disk = [good |-> {}, corrupt |-> {}, by |-> <<>>, tmp |-> <<>>, json |-> <<>>]
    /\ tasks = <<>>
    /\ pathIndex = <<>>
    /\ scan \in [pc : {"probe"}, failed : BOOLEAN, output : ProbeOutputs]
    /\ srv = "serving"

\* VerifyIntegrity(path) is called on the file.
Probe ==
    /\ scan.pc = "probe"
    /\ scan' = [pc |-> "probed", failed |-> scan.failed, output |-> scan.output,
                ret |-> VerifyIntegrity(scan.failed, scan.output)]
    /\ UNCHANGED <<stream, served, songs, disk, tasks, pathIndex, srv, gateway, codec, merge>>

SpecVerify == InitVerify /\ [][Probe]_vars

\* The probe printed a duration of at least one second.
ProbedAtLeastOneSecond ==
    /\ ~scan.failed
    /\ ~ParseFloat(TrimSpace(scan.output)).err
    /\ ParseFloat(TrimSpace(scan.output)).val >= 10^MaxLen

\* C33: VerifyIntegrity returns no error exactly when the probed duration
\* is at least 1.0 s: a duration of exactly 1.0 s passes; a shorter, missing
\* or unparsable one fails.
C33_PassesFromOneSecond ==
    scan.pc = "probed" => (scan.ret = "nil" <=> ProbedAtLeastOneSecond)

\* C39: every index entry "path:<id>" the sync worker or the scan wrote
\* points to a file that is there; once the scan or the check after
\* publishing has deleted a file, no entry points to it.
C39_IndexPointsToFile ==
    \A id \in DOMAIN pathIndex : pathIndex[id] \in Published

\* C32: in a maintenance scan that runs to the end, every audio file visited
\* adds one to total; one that fails the integrity check adds one to corrupt
\* (so corrupt <= total) and is deleted with its .json sidecar; one that
\* passes and has a sidecar has its index entry set to its path; a file
\* with another extension (.json, .tmp) is neither counted nor deleted.
C32_ScanCountsAndCleans ==
    [][(scan.pc = "walking" /\ scan' # scan /\ scan'.pc \in {"walking", "done"}) =>
          LET path == CHOOSE q \in scan.todo : q \notin scan'.todo
          IN  /\ scan'.corrupt <= scan'.total
              /\ CASE path \in disk.corrupt ->
                          /\ scan'.total = scan.total + 1
                          /\ scan'.corrupt = scan.corrupt + 1
                          /\ path \notin disk'.good \cup disk'.corrupt
                          /\ path \notin DOMAIN disk'.json
                   [] path \in disk.good ->
                          /\ scan'.total = scan.total + 1
                          /\ scan'.corrupt = scan.corrupt
                          /\ disk' = disk
                          /\ path \in DOMAIN disk.json =>
                                /\ disk.json[path].ID \in DOMAIN pathIndex'
                                /\ pathIndex'[disk.json[path].ID] = path
                   [] OTHER ->
                          /\ scan'.total = scan.total
                          /\ scan'.corrupt = scan.corrupt
                          /\ disk' = disk
                          /\ pathIndex' = pathIndex]_vars

\* C34: when the first transcoder run of a sync fails other than by the
\* deadline, the worker runs the transcoder exactly once more, without the
\* cover and with the output format forced; when that run fails too the
\* .tmp file is removed, nothing is published and an error is returned; no
\* sync runs the transcoder more than twice.
C34_RetryOnceFormatForced ==
    [][\A i \in 1 .. Len(tasks) :
          /\ tasks'[i].transcodes <= 2
          /\ (tasks[i].pc = "writing" /\ tasks'[i].pc = "failed"
                 /\ tasks'[i].err # "ffmpeg timed out") =>
                /\ tasks[i].transcodes = 1
                /\ tasks'[i].transcodes = 2
                /\ ~tasks'[i].args.cover
                /\ tasks'[i].args.f = GetDownloadFormat
                /\ OutputPath(tasks[i].song) \notin DOMAIN disk'.tmp
                /\ disk'.good = disk.good
                /\ disk'.corrupt = disk.corrupt
                /\ tasks'[i].err = "ffmpeg failed"]_vars

\* C35: the four kind-specific queries of one gateway search go to the same
\* endpoint, also when another request rotates the endpoint while they are
\* sent; and a query that fails does not fail the search.
C35_SearchUsesOneEndpoint ==
    op = "search" =>
        /\ Cardinality(call.at) <= 1
        /\ (call.pc = "done" /\ ~call.hit) => call.ret.err = "nil"

\* C36: for every external identifier, the provider key a gateway logical
\* call (GetAlbum, GetArtist, GetCoverURL) sends upstream is the opaque
\* component ParseID decodes from it, keys that contain a dash included.
C36_CallSendsDecodedKey ==
    codec.op = "called" => codec.sent = ParseID(codec.id).externalID

====
